---------------------------- MODULE Spec2Model ----------------------------
(***************************************************************************)
(* A model of ctjson: the type-directed JSON parser (Deserializer,         *)
(* DeserializationHelper), the token cursor (TokenStream,                  *)
(* ContextTokenStream), the path tracker (detail::Path), the result type   *)
(* (ParseResult) and the dumper (Serializer, SerializationHelper,          *)
(* SimpleWriter).                                                          *)
(*                                                                         *)
(* The recursive parse<T> is run as a stack machine: a frame per active    *)
(* call, and one action per straight-line segment of a handler between     *)
(* two of its recursive calls to parse<ValueType>.  Every call a segment   *)
(* makes on the cursor (peek, next, get_path) is part of that action.      *)
(***************************************************************************)
EXTENDS Integers, Sequences, FiniteSets, TLC

(***************************************************************************)
(* Bounds of the model.                                                    *)
(***************************************************************************)
\* The longest token stream the tokenizer is asked to produce.
MaxTokens == 9
\* How many times the caller runs Deserializer::parse on one cursor.
MaxCalls == 2

(***************************************************************************)
(* C++ integer types.  TLC's integers are 32 bits wide, so the 32- and     *)
(* 64-bit types are modelled 20 and 24 bits wide; 8 and 16 bits are kept.  *)
(* The order of the widths and the promotion of every type narrower than   *)
(* int to int are those of the build.                                      *)
(***************************************************************************)
IntTypes == {"int8", "int16", "int32", "int64",
             "uint8", "uint16", "uint32", "uint64"}

is_signed(t) == t \in {"int8", "int16", "int32", "int64"}

Bits(t) == CASE t \in {"int8", "uint8"}   -> 8
             [] t \in {"int16", "uint16"} -> 16
             [] t \in {"int32", "uint32"} -> 20
             [] t \in {"int64", "uint64"} -> 24

Pow2(n) == IF n = 0 THEN 1 ELSE LET F[i \in 0..n] == IF i = 0 THEN 1 ELSE 2 * F[i - 1] IN F[n]

\* std::numeric_limits<t>::min() and ::max()
numeric_min(t) == IF is_signed(t) THEN 0 - Pow2(Bits(t) - 1) ELSE 0
numeric_max(t) == IF is_signed(t) THEN Pow2(Bits(t) - 1) - 1 ELSE Pow2(Bits(t)) - 1

make_unsigned(t) == CASE t \in {"int8", "uint8"}   -> "uint8"
                      [] t \in {"int16", "uint16"} -> "uint16"
                      [] t \in {"int32", "uint32"} -> "uint32"
                      [] t \in {"int64", "uint64"} -> "uint64"

\* static_cast<t>(v): the value of v in type t (modulo 2^Bits(t))
static_cast(t, v) ==
    LET m == Pow2(Bits(t))
        r == v % m
    IN IF is_signed(t) /\ r >= m \div 2 THEN r - m ELSE r

\* integral promotion: every type narrower than int becomes int
Promote(t) == IF Bits(t) < Bits("int32") THEN "int32" ELSE t

\* usual arithmetic conversions: the common type of a binary operator
CommonType(ta, tb) ==
    LET a == Promote(ta)
        b == Promote(tb)
    IN IF is_signed(a) = is_signed(b)
         THEN (IF Bits(a) >= Bits(b) THEN a ELSE b)
       ELSE LET u == IF is_signed(a) THEN b ELSE a
                s == IF is_signed(a) THEN a ELSE b
            IN IF Bits(u) >= Bits(s) THEN u ELSE s

\* the built-in t < u on operands of types ta and tb
BuiltinLess(ta, a, tb, b) ==
    LET c == CommonType(ta, tb)
    IN static_cast(c, a) < static_cast(c, b)

\* a faulty variant of cmp_less: the comparison without the signedness cases
cmp_less_plain(ta, a, tb, b) == BuiltinLess(ta, a, tb, b)

cmp_less(ta, a, tb, b) ==
    IF is_signed(ta) = is_signed(tb)
      THEN BuiltinLess(ta, a, tb, b)
    ELSE IF is_signed(ta)
      THEN (IF a < 0 THEN TRUE
            ELSE BuiltinLess(make_unsigned(ta), static_cast(make_unsigned(ta), a), tb, b))
    ELSE (IF b < 0 THEN FALSE
          ELSE BuiltinLess(ta, a, make_unsigned(tb), static_cast(make_unsigned(tb), b)))

cmp_greater(ta, a, tb, b) == cmp_less(tb, b, ta, a)

cmp_less_equal(ta, a, tb, b) == ~cmp_greater(ta, a, tb, b)

cmp_greater_equal(ta, a, tb, b) == ~cmp_less(ta, a, tb, b)

\* in_range<R>(t) for a value t of type tt
in_range(R, tt, t) ==
    /\ cmp_greater_equal(tt, t, R, numeric_min(R))
    /\ cmp_less_equal(tt, t, R, numeric_max(R))

(***************************************************************************)
(* Tokens (detail/Token.hpp).  A token is [type, value]; the value of a    *)
(* token that carries none is 0.                                           *)
(***************************************************************************)
MetaTokens == <<"Null", "StartObject", "Key", "EndObject", "StartArray", "EndArray">>

ValueTokens == <<"Bool", "Int", "Uint", "Int64", "Uint64", "Double", "RawNumber", "String">>

Token(type, value) == [type |-> type, value |-> value]

\* std::nullopt of std::optional<Token>
NoToken == [type |-> "nullopt", value |-> 0]

has_value(maybeToken) == maybeToken.type # "nullopt"

\* value_type of the token classes
TokenValueType(type) ==
    CASE type = "Bool"      -> "bool"
      [] type = "Int"       -> "int32"
      [] type = "Uint"      -> "uint32"
      [] type = "Int64"     -> "int64"
      [] type = "Uint64"    -> "uint64"
      [] type = "Double"    -> "double"
      [] type = "RawNumber" -> "string"
      [] type = "String"    -> "string"
      [] OTHER              -> "void"

\* Token::name
name(type) ==
    CASE type = "Null"        -> "null"
      [] type = "Bool"        -> "bool"
      [] type = "Int"         -> "int"
      [] type = "Int64"       -> "int64"
      [] type = "Uint"        -> "uint"
      [] type = "Uint64"      -> "uint64"
      [] type = "Double"      -> "double"
      [] type = "RawNumber"   -> "number"
      [] type = "String"      -> "string"
      [] type = "StartObject" -> "start object"
      [] type = "Key"         -> "key"
      [] type = "EndObject"   -> "end object"
      [] type = "StartArray"  -> "start array"
      [] type = "EndArray"    -> "end array"

(***************************************************************************)
(* ParseResult (ParseResult.hpp).  A path is std::optional<std::string>:   *)
(* << >> is std::nullopt, <<s>> holds s.                                   *)
(***************************************************************************)
result(value) == [kind |-> "NO_ERROR", value |-> value]

json_error(error, path) == [kind |-> "JSON_ERROR", error |-> error, path |-> path]

parse_error(error, path) == [kind |-> "PARSE_ERROR", error |-> error, path |-> path]

is_ok(r) == r.kind = "NO_ERROR"

is_json_error(r) == r.kind = "JSON_ERROR"

is_parse_error(r) == r.kind = "PARSE_ERROR"

\* a faulty variant of convert_error: the path is not carried over
convert_error_no_path(other) == [kind |-> other.kind, error |-> other.error, path |-> << >>]

convert_error(other) == [kind |-> other.kind, error |-> other.error, path |-> other.path]

(***************************************************************************)
(* The types parse<T> and dump<T> are instantiated with (detail/Typing.hpp *)
(* and the dispatch of Deserializer.hpp): [cat, name, of, fields].         *)
(*   cat "value"    bool, an integer type, double or std::string (name)    *)
(*   cat "optional" std::optional<of[1]>                                   *)
(*   cat "array"    name<of[1]>, name is vector, set or unordered_set      *)
(*   cat "dict"     name<std::string, of[1]>, name is map or unordered_map *)
(*   cat "object"   a class whose json_parse calls parse_object on fields, *)
(*                  a sequence of [name, type]                             *)
(***************************************************************************)
Value(n) == [cat |-> "value", name |-> n, of |-> << >>, fields |-> << >>]

Optional(T) == [cat |-> "optional", name |-> "optional", of |-> <<T>>, fields |-> << >>]

Array(box, T) == [cat |-> "array", name |-> box, of |-> <<T>>, fields |-> << >>]

Dict(box, T) == [cat |-> "dict", name |-> box, of |-> <<T>>, fields |-> << >>]

Object(n, fields) == [cat |-> "object", name |-> n, of |-> << >>, fields |-> fields]

Field(n, T) == [name |-> n, type |-> T]

is_optional_v(T) == T.cat = "optional"

\* a double is [halves |-> k]: the number k/2
Double(k) == [halves |-> k]

(***************************************************************************)
(* Deserializer::parse_value_impl (Deserializer.hpp): the token against    *)
(* the scalar target type T.                                               *)
(***************************************************************************)
unexpected_end_error == "Unexpected end of json"

\* unexpected_token_error<t_types...>(token), expected a sequence of types
unexpected_token_error(expected, token) ==
    LET F[i \in 0..Len(expected)] ==
            IF i = 0 THEN "" ELSE F[i - 1] \o name(expected[i]) \o ","
    IN "Expected " \o F[Len(expected)] \o " got " \o name(token.type)

InValueTokens(type) == \E i \in 1..Len(ValueTokens) : ValueTokens[i] = type

\* a faulty variant of parse_value: an integer token is not widened to a
\* floating-point target
parse_value_no_widening(T, token, path) ==
    IF ~InValueTokens(token.type)
      THEN parse_error("Unexpected " \o name(token.type), path)
    ELSE LET V == TokenValueType(token.type)
             is_bool == T = "bool" /\ V = "bool"
             is_integer == T \in IntTypes /\ V \in IntTypes
             is_floating == V \in {"float", "double"} /\ T \in {"float", "double"}
             is_string == V = "string" /\ T = "string"
         IN IF is_bool THEN result(token.value)
            ELSE IF is_integer
              THEN (IF in_range(T, V, token.value)
                      THEN result(static_cast(T, token.value))
                      ELSE parse_error("Integer value not in range", path))
            ELSE IF is_floating THEN result(token.value)
            ELSE IF is_string THEN result(token.value)
            ELSE parse_error("Unexpected " \o name(token.type), path)

parse_value(T, token, path) ==
    IF ~InValueTokens(token.type)
      THEN parse_error("Unexpected " \o name(token.type), path)
    ELSE LET V == TokenValueType(token.type)
             t_is_bool == T = "bool"
             v_is_bool == V = "bool"
             t_is_integer == T \in IntTypes
             v_is_integer == V \in IntTypes
             t_is_floating == T \in {"float", "double"}
             v_is_floating == V \in {"float", "double"}
             is_bool == t_is_bool /\ v_is_bool
             is_integer == t_is_integer /\ v_is_integer
             is_floating == (v_is_integer \/ v_is_floating) /\ t_is_floating
             is_string == V = "string" /\ T = "string"
         IN IF is_bool THEN result(token.value)
            ELSE IF is_integer
              THEN (IF in_range(T, V, token.value)
                      THEN result(static_cast(T, token.value))
                      ELSE parse_error("Integer value not in range", path))
            ELSE IF is_floating
              THEN result(IF v_is_integer THEN Double(2 * token.value) ELSE token.value)
            ELSE IF is_string THEN result(token.value)
            ELSE parse_error("Unexpected " \o name(token.type), path)

(***************************************************************************)
(* detail::Path (detail/Path.hpp).  m_path is a sequence of components     *)
(* [kind, key, index]: an Object has key << >> (std::nullopt) or <<k>>,    *)
(* an Array has index -1 before its first element.                         *)
(***************************************************************************)
PathObject == [kind |-> "Object", key |-> << >>, index |-> -1]

PathArray == [kind |-> "Array", key |-> << >>, index |-> -1]

pop_back(s) == SubSeq(s, 1, Len(s) - 1)

back(s) == s[Len(s)]

\* a faulty variant of advance_array_if_needed: the index is never advanced
advance_array_never(m_path) == m_path

advance_array_if_needed(m_path) ==
    IF m_path = << >> \/ back(m_path).kind # "Array"
      THEN m_path
      ELSE [m_path EXCEPT ![Len(m_path)].index = @ + 1]

start_object(m_path) == Append(advance_array_if_needed(m_path), PathObject)

\* a faulty variant of key: the key is not stored
key_not_stored(m_path, k) == m_path

\* std::get<Object>(m_path.back()) throws unless the innermost component is
\* an object; the tokenizer sends a Key only inside an object
key(m_path, k) ==
    IF m_path # << >> /\ back(m_path).kind = "Object"
      THEN [m_path EXCEPT ![Len(m_path)].key = <<k>>]
      ELSE m_path

\* a faulty variant of end_object: the component is not popped
end_object_no_pop(m_path) == m_path

end_object(m_path) == pop_back(m_path)

start_array(m_path) == Append(advance_array_if_needed(m_path), PathArray)

value(m_path) == advance_array_if_needed(m_path)

end_array(m_path) == pop_back(m_path)

\* Object::render and Array::render
render_component(c) ==
    IF c.kind = "Object"
      THEN (IF c.key # << >> THEN "." \o c.key[1] ELSE "")
      ELSE (IF c.index = -1 THEN "" ELSE "[" \o ToString(c.index) \o "]")

render(m_path) ==
    LET F[i \in 0..Len(m_path)] ==
            IF i = 0 THEN "root" ELSE F[i - 1] \o render_component(m_path[i])
    IN F[Len(m_path)]

(***************************************************************************)
(* The tokenizer, rapidjson::Reader with kParseIterativeFlag and           *)
(* kParseTrailingCommasFlag, as TokenStream drives it.  Its state is       *)
(*   state   "Start", "Run" or "Finish" (IterativeParseComplete)           *)
(*   nest    the open containers, innermost last: "Array", "ObjectKey"     *)
(*           (a key or the end of the object comes next), "ObjectValue"    *)
(*   left    how many more tokens the text may hold                        *)
(*   mode    "free": the text is any JSON text over Scalars and keys;      *)
(*           "script": the text is the tokens of script, and tail says     *)
(*           what follows them ("clean": nothing, "garbage": more input    *)
(*           after the root value, "cut": the text breaks off there)       *)
(* One call of IterativeParseNext hands at most one token to the handler   *)
(* and returns whether the parse is still sound.  On the last token of the *)
(* root value it looks past the value: input that follows is an error,     *)
(* reported by the call that has just handed over that token.              *)
(***************************************************************************)
Scalars == {Token("Null", 0), Token("Bool", TRUE), Token("Uint", 1), Token("Int", -1),
            Token("Uint", 300), Token("Double", Double(3)), Token("String", "s")}

Need(nest) == Len(nest) + (IF nest # << >> /\ back(nest) = "ObjectValue" THEN 1 ELSE 0)

\* the container stack after one more value has been completed in it
AfterValue(nest) ==
    IF nest # << >> /\ back(nest) = "ObjectValue"
      THEN Append(pop_back(nest), "ObjectKey")
      ELSE nest

\* the container stack after token t
NestAfter(nest, t) ==
    CASE t.type = "StartObject" -> Append(nest, "ObjectKey")
      [] t.type = "StartArray"  -> Append(nest, "Array")
      [] t.type = "Key"         -> Append(pop_back(nest), "ObjectValue")
      [] t.type = "EndObject"   -> AfterValue(pop_back(nest))
      [] t.type = "EndArray"    -> AfterValue(pop_back(nest))
      [] OTHER                  -> AfterValue(nest)

\* the tokens the JSON grammar allows next
Grammatical(rd) ==
    LET values == Scalars \cup {Token("StartObject", 0), Token("StartArray", 0)}
    IN IF rd.nest = << >> THEN values
       ELSE IF back(rd.nest) = "Array" THEN values \cup {Token("EndArray", 0)}
       ELSE IF back(rd.nest) = "ObjectValue" THEN values
       ELSE {Token("Key", k) : k \in rd.keys} \cup {Token("EndObject", 0)}

Candidates(rd) ==
    IF rd.mode = "script"
      THEN (IF rd.script = << >> THEN {} ELSE {Head(rd.script)})
      ELSE {t \in Grammatical(rd) : Need(NestAfter(rd.nest, t)) <= rd.left - 1}

\* rapidjson::GetParseError_En of the code the reader stops with
GetParseError_En(rd) ==
    IF rd.state = "Finish" THEN "The document root must not be followed by other values."
    ELSE IF rd.state = "Start" THEN "The document is empty."
    ELSE IF back(rd.nest) = "Array" THEN "Missing a comma or ']' after an array element."
    ELSE IF back(rd.nest) = "ObjectKey" THEN "Missing a name for object member."
    ELSE "Invalid value."

IterativeParseComplete(rd) == rd.state = "Finish"

\* the outcomes of one call: [ok, token, rd]; token is NoToken when the
\* handler was not called
IterativeParseNext(rd) ==
    LET After(t) == [rd EXCEPT !.nest = NestAfter(rd.nest, t),
                               !.left = @ - 1,
                               !.script = IF rd.mode = "script" THEN Tail(@) ELSE @,
                               !.state = IF NestAfter(rd.nest, t) = << >> THEN "Finish" ELSE "Run"]
        Handed(t) ==
            IF NestAfter(rd.nest, t) # << >>
              THEN {[ok |-> TRUE, token |-> t, rd |-> After(t)]}
              ELSE {[ok |-> b, token |-> t, rd |-> After(t)] :
                      b \in (IF rd.mode = "script" THEN {rd.tail = "clean"} ELSE BOOLEAN)}
        Broken == IF rd.mode = "script" /\ rd.script # << >>
                    THEN {}
                    ELSE {[ok |-> FALSE, token |-> NoToken, rd |-> rd]}
    IN UNION {Handed(t) : t \in Candidates(rd)} \cup Broken

(***************************************************************************)
(* TokenStream and ContextTokenStream (TokenStream.hpp).  The cursor is    *)
(*   m_token   m_handler.m_token, the one cached token or NoToken          *)
(*   m_error   << >> or <<message>>                                        *)
(*   m_path    the Path of ContextTokenStream                              *)
(*   rd        m_reader and m_is                                           *)
(*   hist      history: the tokens the reader handed to the handler        *)
(*   taken     history: how many tokens m_handler.token() gave away        *)
(*   tracked   history: how many times on_advance ran                      *)
(***************************************************************************)
has_token(c) == has_value(c.m_token)

has_error(c) == c.m_error # << >>

get_error(c) == c.m_error[1]

is_complete(c) == IterativeParseComplete(c.rd) /\ ~has_token(c)

get_path(c) == <<render(c.m_path)>>

on_advance(m_path, token) ==
    CASE token.type = "StartObject" -> start_object(m_path)
      [] token.type = "Key"         -> key(m_path, token.value)
      [] token.type = "EndObject"   -> end_object(m_path)
      [] token.type = "StartArray"  -> start_array(m_path)
      [] token.type = "EndArray"    -> end_array(m_path)
      [] OTHER                      -> value(m_path)

\* TokenHandler::dispatch, called by the reader: the token is stored
dispatch(c, o) ==
    [c EXCEPT !.rd = o.rd,
              !.m_token = IF has_value(o.token) THEN o.token ELSE @,
              !.hist = IF has_value(o.token) THEN Append(@, o.token) ELSE @]

\* the cursors advance() can leave, one per outcome of the reader
advance(c) ==
    {LET d == dispatch(c, o)
     IN IF ~o.ok
          THEN [d EXCEPT !.m_error = <<GetParseError_En(o.rd)>>]
        ELSE IF ~has_token(d)
          THEN [d EXCEPT !.m_error = <<"Unexpected state: no token acquired, possibly a bug">>]
        ELSE [d EXCEPT !.m_path = on_advance(@, d.m_token), !.tracked = @ + 1]
     : o \in IterativeParseNext(c.rd)}

\* a faulty variant of acquire_token: the tokenizer is pulled although a
\* token is cached
acquire_token_eager(c) ==
    IF has_error(c) \/ is_complete(c)
      THEN {[ok |-> FALSE, c |-> c]}
      ELSE {[ok |-> has_token(d), c |-> d] : d \in advance(c)}

\* acquire_token: the outcomes [ok, c]
acquire_token(c) ==
    IF has_error(c) \/ is_complete(c)
      THEN {[ok |-> FALSE, c |-> c]}
    ELSE IF ~has_token(c)
      THEN {[ok |-> has_token(d), c |-> d] : d \in advance(c)}
    ELSE {[ok |-> TRUE, c |-> c]}

\* peek: the outcomes [token, c]
peek(c) == {[token |-> a.c.m_token, c |-> a.c] : a \in acquire_token(c)}

\* a faulty variant of TokenHandler::token(): the cached token is not moved out
take_token_kept(c) == c

\* TokenHandler::token(): the cached token is moved out
take_token(c) == [c EXCEPT !.m_token = NoToken, !.taken = @ + 1]

\* next: the outcomes [token, c]
next(c) ==
    {IF a.ok THEN [token |-> a.c.m_token, c |-> take_token(a.c)]
             ELSE [token |-> NoToken, c |-> a.c]
     : a \in acquire_token(c)}

\* a faulty variant of no_token_error: the failure of the tokenizer is not looked at
no_token_error_unchecked(c) == parse_error(unexpected_end_error, get_path(c))

\* the error every handler returns when the cursor gave it no token
no_token_error(c) ==
    IF has_error(c) THEN json_error(get_error(c), get_path(c))
                    ELSE parse_error(unexpected_end_error, get_path(c))

(***************************************************************************)
(* Values.  bool: TRUE/FALSE; integers: Int; double: Double(k);            *)
(* std::string: a string; std::optional: nullopt or Some(v); std::vector:  *)
(* a sequence; std::set and std::unordered_set: a set; std::map and        *)
(* std::unordered_map: a function on its keys; an object: the sequence of  *)
(* its fields' values, in the order of the field descriptors.              *)
(***************************************************************************)
nullopt == [has |-> FALSE]

Some(v) == [has |-> TRUE, v |-> v]

\* the value of a default-initialised T (T object;): a scalar that is not a
\* class has an indeterminate value, which the parser never reads
RECURSIVE Default(_)
Default(T) ==
    CASE T.cat = "value"    -> (IF T.name = "string" THEN "" ELSE "indeterminate")
      [] T.cat = "optional" -> nullopt
      [] T.cat = "array"    -> (IF T.name = "vector" THEN << >> ELSE {})
      [] T.cat = "dict"     -> << >>
      [] T.cat = "object"   -> [i \in 1..Len(T.fields) |-> Default(T.fields[i].type)]
      [] T.cat = "from"     -> << >>

\* a faulty variant of array_emplace: the element goes to the front
array_emplace_front(T, r, v) == IF T.name = "vector" THEN <<v>> \o r ELSE r \cup {v}

\* is_array_like<T>::emplace
array_emplace(T, r, v) == IF T.name = "vector" THEN Append(r, v) ELSE r \cup {v}

\* is_dict_like<T>::emplace: std::map::emplace keeps the element a key already has
dict_emplace(m, k, v) == IF k \in DOMAIN m THEN m ELSE (k :> v) @@ m

(***************************************************************************)
(* The state.                                                              *)
(*   tokens  the cursor                                                    *)
(*   stack   the active calls of parse<T>, innermost last; a frame is      *)
(*           [T, pc, acc, key, set]: pc is "call" before the handler has   *)
(*           run and "member" while it waits for parse<ValueType>; acc is  *)
(*           the container or object under construction; key is the key    *)
(*           (dict) or the index of the field (object) being parsed; set   *)
(*           is the indices of the fields with m_set                       *)
(*   ret     the ParseResult of the call that returned last, NoResult      *)
(*           while a call runs                                             *)
(*   root    the T of the caller's parse<T>(tokens)                        *)
(*   calls   how many times the caller has called parse<T>(tokens)         *)
(*   ev      history: what the last step did: its handler (op), whether    *)
(*           it inspected a token of the cursor (fetch) and which          *)
(*           (tok, NoToken if the cursor gave none), and the frame of the  *)
(*           handler as the step left it                                   *)
(*   written the lexemes the SimpleWriter of dump<T> has put out           *)
(*   given   the value the caller dumped to get the text, NotDumped if     *)
(*           the text came from elsewhere                                  *)
(*   earlier the results of the parse<T>(json) calls the caller made       *)
(*           before, each with a cursor of its own                         *)
(***************************************************************************)
VARIABLES tokens, stack, ret, root, calls, ev, given, written, earlier

vars == <<tokens, stack, ret, root, calls, ev, given, written, earlier>>

NotDumped == [kind |-> "none"]

NoResult == [kind |-> "none"]

Frame(T) == [T |-> T, pc |-> "call", acc |-> Default(T), key |-> 0, set |-> {}]

Event(op, fetch, tok, f) == [op |-> op, fetch |-> fetch, tok |-> tok, frame |-> f]

top == back(stack)

\* the handler returns r
Return(c, r, e) ==
    /\ tokens' = c
    /\ stack' = pop_back(stack)
    /\ ret' = r
    /\ ev' = e
    /\ UNCHANGED <<root, calls, given, written, earlier>>

\* the handler, its frame now f, calls parse<T>
Enter(c, f, T, e) ==
    /\ tokens' = c
    /\ stack' = Append(Append(pop_back(stack), [f EXCEPT !.pc = "member"]), Frame(T))
    /\ ret' = NoResult
    /\ ev' = e
    /\ UNCHANGED <<root, calls, given, written, earlier>>

Calling(cat) == stack # << >> /\ top.pc = "call" /\ top.T.cat = cat /\ ret = NoResult

Resuming(cat) == stack # << >> /\ top.pc = "member" /\ top.T.cat = cat /\ ret # NoResult

(***************************************************************************)
(* Deserializer::parse, values (Deserializer.hpp:36-53)                    *)
(***************************************************************************)
ParseValue ==
    /\ Calling("value")
    /\ \E n \in next(tokens) :
         Return(n.c,
                IF ~has_value(n.token) THEN no_token_error(n.c)
                ELSE parse_value(top.T.name, n.token, get_path(n.c)),
                Event("value", TRUE, n.token, top))

(***************************************************************************)
(* Deserializer::parse, std::optional (Deserializer.hpp:58-88)             *)
(***************************************************************************)
ParseOptional ==
    /\ Calling("optional")
    /\ \E p \in peek(tokens) :
         IF ~has_value(p.token)
           THEN Return(p.c, no_token_error(p.c), Event("optional", TRUE, p.token, top))
         ELSE IF p.token.type = "Null"
           THEN \E n \in next(p.c) :
                  Return(n.c, result(nullopt), Event("optional", TRUE, p.token, top))
         ELSE Enter(p.c, top, top.T.of[1], Event("optional", TRUE, p.token, top))

OptionalMember ==
    /\ Resuming("optional")
    /\ Return(tokens,
              IF is_ok(ret) THEN result(Some(ret.value)) ELSE convert_error(ret),
              Event("optional", FALSE, NoToken, top))

(***************************************************************************)
(* Deserializer::parse, arrays (Deserializer.hpp:94-149)                   *)
(***************************************************************************)
\* one turn of while (true), up to the call of parse<ValueType>
ArrayLoop(c, f) ==
    \E p \in peek(c) :
      IF ~has_value(p.token)
        THEN Return(p.c, no_token_error(p.c), Event("array", TRUE, p.token, f))
      ELSE IF p.token.type = "EndArray"
        THEN \E n \in next(p.c) :
               Return(n.c, result(f.acc), Event("array", TRUE, p.token, f))
      ELSE Enter(p.c, f, f.T.of[1], Event("array", TRUE, p.token, f))

ParseArray ==
    /\ Calling("array")
    /\ \E n \in next(tokens) :
         IF ~has_value(n.token)
           THEN Return(n.c, no_token_error(n.c), Event("array", TRUE, n.token, top))
         ELSE IF n.token.type # "StartArray"
           THEN Return(n.c,
                       parse_error(unexpected_token_error(<<"StartArray">>, n.token),
                                   get_path(n.c)),
                       Event("array", TRUE, n.token, top))
         ELSE ArrayLoop(n.c, top)

ArrayMember ==
    /\ Resuming("array")
    /\ IF ~is_ok(ret)
         THEN Return(tokens, convert_error(ret), Event("array", FALSE, NoToken, top))
         ELSE ArrayLoop(tokens, [top EXCEPT !.acc = array_emplace(top.T, @, ret.value)])

(***************************************************************************)
(* Deserializer::parse, dicts (Deserializer.hpp:154-217)                   *)
(***************************************************************************)
DictLoop(c, f) ==
    \E n \in next(c) :
      IF ~has_value(n.token)
        THEN Return(n.c, no_token_error(n.c), Event("dict", TRUE, n.token, f))
      ELSE IF n.token.type = "EndObject"
        THEN Return(n.c, result(f.acc), Event("dict", TRUE, n.token, f))
      ELSE IF n.token.type # "Key"
        THEN Return(n.c,
                    parse_error(unexpected_token_error(<<"Key", "EndObject">>, n.token),
                                get_path(n.c)),
                    Event("dict", TRUE, n.token, f))
      ELSE Enter(n.c, [f EXCEPT !.key = n.token.value], f.T.of[1],
                 Event("dict", TRUE, n.token, [f EXCEPT !.key = n.token.value]))

ParseDict ==
    /\ Calling("dict")
    /\ \E n \in next(tokens) :
         IF ~has_value(n.token)
           THEN Return(n.c, no_token_error(n.c), Event("dict", TRUE, n.token, top))
         ELSE IF n.token.type # "StartObject"
           THEN Return(n.c,
                       parse_error(unexpected_token_error(<<"StartObject">>, n.token),
                                   get_path(n.c)),
                       Event("dict", TRUE, n.token, top))
         ELSE DictLoop(n.c, top)

DictMember ==
    /\ Resuming("dict")
    /\ IF ~is_ok(ret)
         THEN Return(tokens, convert_error(ret), Event("dict", FALSE, NoToken, top))
         ELSE DictLoop(tokens, [top EXCEPT !.acc = dict_emplace(@, top.key, ret.value)])

(***************************************************************************)
(* DeserializationHelper (DeserializationHelper.hpp): parse_object, run by *)
(* the json_parse of a class over one Field per member.                    *)
(***************************************************************************)
\* Field::is_set and Field::is_ready of the field with index i
is_set(f, i) == i \in f.set

\* a faulty variant of is_ready: an optional field counts as ready only once set
is_ready_set_only(f, i) == i \in f.set

is_ready(f, i) == is_set(f, i) \/ is_optional_v(f.T.fields[i].type)

\* build_fields_map: name -> index; a later field of the same name wins
build_fields_map(fields) ==
    [n \in {fields[i].name : i \in 1..Len(fields)} |->
        CHOOSE i \in 1..Len(fields) :
            /\ fields[i].name = n
            /\ \A j \in 1..Len(fields) : fields[j].name = n => j <= i]

\* a faulty variant of missing_keys_error: every field is listed
missing_keys_error_all(f) ==
    LET F[i \in 0..Len(f.T.fields)] ==
            IF i = 0 THEN "Missing keys: " ELSE F[i - 1] \o f.T.fields[i].name \o ", "
    IN F[Len(f.T.fields)] \o "got " \o name("EndObject")

missing_keys_error(f) ==
    LET F[i \in 0..Len(f.T.fields)] ==
            IF i = 0 THEN "Missing keys: "
            ELSE F[i - 1] \o (IF is_ready(f, i) THEN "" ELSE f.T.fields[i].name \o ", ")
    IN F[Len(f.T.fields)] \o "got " \o name("EndObject")

\* the end of json_parse: the object, or the error of parse_object
json_parse(r, object) == IF is_ok(r) THEN result(object) ELSE convert_error(r)

\* ParseResult<void>::result()
result_void == [kind |-> "NO_ERROR"]

\* Field::set
set(f, i, v) == [f EXCEPT !.acc[i] = v, !.set = @ \cup {i}]

\* a faulty variant of the is_set test of parse_field: a set field is parsed again
field_taken_never(f, i) == FALSE

\* the is_set test of parse_field
field_taken(f, i) == is_set(f, i)

\* a faulty variant of the lookup of the key: every key is taken for the first field
lookup_first(map, k) == <<1>>

\* map.count(key) and map.at(key): << >> or <<index>>
lookup(map, k) == IF k \in DOMAIN map THEN <<map[k]>> ELSE << >>

\* one turn of while (true) of parse_object, up to the call of parse<FieldType>
ObjectLoop(c, f) ==
    \E n \in next(c) :
      LET e == Event("object", TRUE, n.token, f)
          map == build_fields_map(f.T.fields)
          at == lookup(map, n.token.value)
      IN IF ~has_value(n.token)
           THEN Return(n.c, json_parse(no_token_error(n.c), f.acc), e)
         ELSE IF n.token.type = "EndObject"
                 /\ \A i \in 1..Len(f.T.fields) : is_ready(f, i)
           THEN Return(n.c, json_parse(result_void, f.acc), e)
         ELSE IF n.token.type = "EndObject" /\ Len(f.T.fields) > 0
           THEN Return(n.c,
                       json_parse(parse_error(missing_keys_error(f), get_path(n.c)), f.acc),
                       e)
         ELSE IF n.token.type # "Key"
           THEN Return(n.c,
                       json_parse(parse_error(
                                      unexpected_token_error(<<"Key", "EndObject">>, n.token),
                                      get_path(n.c)), f.acc),
                       e)
         ELSE IF at = << >>
           THEN Return(n.c,
                       json_parse(parse_error("Unexpected key: " \o n.token.value,
                                              get_path(n.c)), f.acc),
                       e)
         ELSE IF field_taken(f, at[1])
           THEN Return(n.c,
                       json_parse(parse_error("Duplicate key: " \o n.token.value,
                                              get_path(n.c)), f.acc),
                       e)
         ELSE Enter(n.c, [f EXCEPT !.key = at[1]], f.T.fields[at[1]].type,
                    Event("object", TRUE, n.token, [f EXCEPT !.key = at[1]]))

ParseObject ==
    /\ Calling("object")
    /\ \E n \in next(tokens) :
         IF ~has_value(n.token)
           THEN Return(n.c, json_parse(no_token_error(n.c), top.acc),
                       Event("object_open", TRUE, n.token, top))
         ELSE IF n.token.type # "StartObject"
           THEN Return(n.c,
                       json_parse(parse_error(
                                      unexpected_token_error(<<"StartObject">>, n.token),
                                      get_path(n.c)), top.acc),
                       Event("object_open", TRUE, n.token, top))
         ELSE ObjectLoop(n.c, top)

\* parse_field after parse<FieldType> has returned
ObjectMember ==
    /\ Resuming("object")
    /\ IF ~is_ok(ret)
         THEN Return(tokens, json_parse(convert_error(ret), top.acc),
                     Event("object", FALSE, NoToken, top))
         ELSE ObjectLoop(tokens, set(top, top.key, ret.value))

(***************************************************************************)
(* The caller.  parse<T>(json) of Json.hpp builds a ContextTokenStream     *)
(* over the text and calls Deserializer::parse<T>(tokens); a caller that   *)
(* holds the cursor may call Deserializer::parse<T>(tokens) again.         *)
(***************************************************************************)
bool == Value("bool")
int8 == Value("int8")
int32 == Value("int32")
double == Value("double")
string == Value("string")

\* the classes of tests/Deserialization.cpp
InnerClass ==
    Object("InnerClass", <<Field("str", string), Field("oint", Optional(int32))>>)

InnerClassError ==
    Object("InnerClassError", <<Field("str", string), Field("integer", int32)>>)

OuterClassError ==
    Object("OuterClassError",
           <<Field("number", double), Field("inners", Array("vector", InnerClassError))>>)

RootTypes ==
    {bool, int8, string, double,
     Optional(int8), Optional(Optional(int8)), Optional(InnerClass),
     Array("vector", int8), Array("set", int8), Array("vector", Array("vector", bool)),
     Array("vector", Optional(int8)),
     Dict("map", int8), Dict("map", Array("vector", int8)),
     InnerClass, InnerClassError, OuterClassError}

\* the keys of the objects of a text read as a T: the names of the fields,
\* two keys for a dict, and one key no class declares
RECURSIVE KeysOf(_)
KeysOf(T) ==
    CASE T.cat = "value"  -> {}
      [] T.cat = "object" -> UNION {{T.fields[i].name} \cup KeysOf(T.fields[i].type) :
                                      i \in 1..Len(T.fields)}
      [] T.cat = "dict"   -> {"a", "b"} \cup KeysOf(T.of[1])
      [] OTHER            -> KeysOf(T.of[1])

Reader(mode, script, tail, keys) ==
    [mode |-> mode, script |-> script, tail |-> tail, keys |-> keys,
     state |-> "Start", nest |-> << >>, left |-> MaxTokens]

\* ContextTokenStream(is)
ContextTokenStream(rd) ==
    [m_token |-> NoToken, m_error |-> << >>, m_path |-> << >>, rd |-> rd,
     hist |-> << >>, taken |-> 0, tracked |-> 0]

InitCall(T, rd) ==
    /\ tokens = ContextTokenStream(rd)
    /\ stack = <<Frame(T)>>
    /\ ret = NoResult
    /\ root = T
    /\ calls = 1
    /\ ev = Event("start", FALSE, NoToken, Frame(T))
    /\ earlier = << >>

InitWith(T, rd) ==
    /\ given = NotDumped
    /\ written = << >>
    /\ InitCall(T, rd)

Init == \E T \in RootTypes : InitWith(T, Reader("free", << >>, "clean", KeysOf(T) \cup {"dup"}))

Done == stack = << >>

ParseAgain ==
    /\ Done
    /\ calls < MaxCalls
    /\ stack' = <<Frame(root)>>
    /\ ret' = NoResult
    /\ calls' = calls + 1
    /\ ev' = Event("start", FALSE, NoToken, Frame(root))
    /\ UNCHANGED <<tokens, root, given, written, earlier>>

Next ==
    \/ ParseValue
    \/ ParseOptional
    \/ OptionalMember
    \/ ParseArray
    \/ ArrayMember
    \/ ParseDict
    \/ DictMember
    \/ ParseObject
    \/ ObjectMember
    \/ ParseAgain

Spec == Init /\ [][Next]_vars

(***************************************************************************)
(* The position of a token in the document, read off the tokens seen       *)
(* (not off the Path): the chain of the containers still open after the    *)
(* token sequence h, each with the last key (object) or the number of      *)
(* elements begun (array) directly inside it.                              *)
(***************************************************************************)
IsStart(t) == t.type \in {"StartObject", "StartArray"}

IsEnd(t) == t.type \in {"EndObject", "EndArray"}

Depth(h, i) ==
    Cardinality({j \in 1..i : IsStart(h[j])}) - Cardinality({j \in 1..i : IsEnd(h[j])})

IsOpen(h, i) == IsStart(h[i]) /\ \A j \in i..Len(h) : Depth(h, j) >= Depth(h, i)

\* the tokens directly inside the open container at i
Inside(h, i) == {j \in (i + 1)..Len(h) : Depth(h, j - 1) = Depth(h, i)}

Max(S) == CHOOSE x \in S : \A y \in S : y <= x

RefComponent(h, i) ==
    IF h[i].type = "StartObject"
      THEN LET ks == {j \in Inside(h, i) : h[j].type = "Key"}
           IN IF ks = {} THEN "" ELSE "." \o h[Max(ks)].value
      ELSE LET n == Cardinality({j \in Inside(h, i) : h[j].type # "Key" /\ ~IsEnd(h[j])})
           IN IF n = 0 THEN "" ELSE "[" \o ToString(n - 1) \o "]"

RefPath(h) ==
    LET F[i \in 0..Len(h)] ==
            IF i = 0 THEN "root"
            ELSE F[i - 1] \o (IF IsOpen(h, i) THEN RefComponent(h, i) ELSE "")
    IN F[Len(h)]

\* the innermost container open after h, 0 if none
Innermost(h) ==
    LET S == {i \in 1..Len(h) : IsOpen(h, i)} IN IF S = {} THEN 0 ELSE Max(S)

\* the path of the object the last token of h lies in
EnclosingPath(h) == RefPath(SubSeq(h, 1, Innermost(h)))

\* the last token of the text was never handed back by the cursor after a
\* key: nothing of the key's value has been pulled or consumed
StoppedAtKey ==
    /\ ~has_token(tokens)
    /\ tokens.taken = Len(tokens.hist)
    /\ back(tokens.hist).type = "Key"

\* the value a scalar or optional-scalar field holds after the token t
RefFieldValue(T, t) ==
    IF T.cat = "value" THEN parse_value(T.name, t, << >>).value
    ELSE IF t.type = "Null" THEN nullopt
    ELSE Some(parse_value(T.of[1].name, t, << >>).value)

IsScalarField(T) ==
    T.cat = "value" \/ (T.cat = "optional" /\ T.of[1].cat = "value")

\* the occurrences of key k directly inside the object open after h
KeyAt(h, k) == {j \in Inside(h, Innermost(h)) : h[j].type = "Key" /\ h[j].value = k}

Min(S) == CHOOSE x \in S : \A y \in S : x <= y

FieldNames(T) == {T.fields[i].name : i \in 1..Len(T.fields)}

(***************************************************************************)
(* C2  Duplicate key rejection.  When parse_object reads a Key k naming a  *)
(* field already set in this call, it returns ParseError "Duplicate key:   *)
(* k" at the path of the enclosing object followed by .k, no token of the  *)
(* duplicate's value is pulled, and the field keeps its first value.       *)
(***************************************************************************)
DuplicateCase ==
    /\ ev.op = "object" /\ ev.fetch /\ ev.tok.type = "Key"
    /\ \E i \in ev.frame.set : ev.frame.T.fields[i].name = ev.tok.value

C2_DuplicateKeyRejected ==
    DuplicateCase =>
      LET k == ev.tok.value
          h == tokens.hist
          f == ev.frame
      IN /\ ret = parse_error("Duplicate key: " \o k, <<EnclosingPath(h) \o "." \o k>>)
         /\ StoppedAtKey
         /\ \A i \in f.set :
              (f.T.fields[i].name = k /\ IsScalarField(f.T.fields[i].type)) =>
                 f.acc[i] = RefFieldValue(f.T.fields[i].type, h[Min(KeyAt(h, k)) + 1])

\* a nullable field that was set to null is named again, in a nested object
W2_DuplicateOfNullField ==
    /\ DuplicateCase
    /\ ev.tok.value = "oint"
    /\ ev.frame.acc[2] = nullopt
    /\ is_parse_error(ret)
    /\ Len(stack) >= 1

(***************************************************************************)
(* C3  Missing key rejection.  When parse_object reads EndObject and some  *)
(* field is not ready, it returns a ParseError whose message lists exactly *)
(* the fields that are neither set nor optional, at the path of the object *)
(* itself.                                                                 *)
(***************************************************************************)
NotReady(f) ==
    {i \in 1..Len(f.T.fields) : i \notin f.set /\ f.T.fields[i].type.cat # "optional"}

MissingCase ==
    /\ ev.op = "object" /\ ev.fetch /\ ev.tok.type = "EndObject"
    /\ NotReady(ev.frame) # {}

RefMissingMessage(f) ==
    LET F[i \in 0..Len(f.T.fields)] ==
            IF i = 0 THEN "Missing keys: "
            ELSE F[i - 1] \o (IF i \in NotReady(f) THEN f.T.fields[i].name \o ", " ELSE "")
    IN F[Len(f.T.fields)] \o "got end object"

C3_MissingKeysRejected ==
    MissingCase =>
      ret = parse_error(RefMissingMessage(ev.frame), <<RefPath(tokens.hist)>>)

\* the same, for a text the tokenizer accepted to its end
C3_MissingKeysRejected_CleanText ==
    (MissingCase /\ ~has_error(tokens)) =>
      ret = parse_error(RefMissingMessage(ev.frame), <<RefPath(tokens.hist)>>)

(***************************************************************************)
(* C4  Unknown key rejection.  A Key k that names no field descriptor      *)
(* yields ParseError "Unexpected key: k" at the path of the enclosing      *)
(* object followed by .k, before any token of the key's value is pulled,   *)
(* however many fields are set.                                            *)
(***************************************************************************)
UnknownCase ==
    /\ ev.op = "object" /\ ev.fetch /\ ev.tok.type = "Key"
    /\ ev.tok.value \notin FieldNames(ev.frame.T)

C4_UnknownKeyRejected ==
    UnknownCase =>
      /\ ret = parse_error("Unexpected key: " \o ev.tok.value,
                           <<EnclosingPath(tokens.hist) \o "." \o ev.tok.value>>)
      /\ StoppedAtKey

\* an unknown key after every declared field has been set, in an object that
\* is itself a member
W4_UnknownAfterAllSet ==
    /\ UnknownCase
    /\ ev.frame.set = 1..Len(ev.frame.T.fields)
    /\ ret.kind = "PARSE_ERROR"
    /\ Len(stack) >= 1

(***************************************************************************)
(* C5  Nested path precision.  A semantic error raised on a token carries  *)
(* the path of that token: "root" and the chain of keys and indices from   *)
(* the root of the document.                                               *)
(***************************************************************************)
SemanticErrorRaised ==
    /\ ev.fetch /\ has_value(ev.tok)
    /\ ret # NoResult /\ is_parse_error(ret)

C5_ErrorPathIsTokenPosition ==
    SemanticErrorRaised => ret.path = <<RefPath(tokens.hist)>>

\* the same, for a text the tokenizer accepted to its end
C5_ErrorPathIsTokenPosition_CleanText ==
    (SemanticErrorRaised /\ ~has_error(tokens)) => ret.path = <<RefPath(tokens.hist)>>

(***************************************************************************)
(* C7  Null for a nullable.  Parsing std::optional<T'> when the next token *)
(* is Null returns Ok(absent), consumes exactly that token and does not    *)
(* call the parser of T'; on any other token the token stays unconsumed    *)
(* for parse<T'>, and the result is Ok(present(x)) exactly when parse<T'>  *)
(* returns Ok(x).                                                          *)
(***************************************************************************)
NullConsumed ==
    /\ ret' = result(nullopt)
    /\ stack' = pop_back(stack)
    /\ tokens'.taken = tokens.taken + 1
    /\ ~has_token(tokens')

PayloadCalled ==
    /\ ret' = NoResult
    /\ tokens'.m_token = ev'.tok
    /\ tokens'.taken = tokens.taken
    /\ Len(stack') = Len(stack) + 1
    /\ back(stack') = Frame(top.T.of[1])

PayloadWrapped ==
    /\ is_ok(ret') <=> is_ok(ret)
    /\ is_ok(ret) => ret' = result(Some(ret.value))

C7_NullForNullable ==
    [][/\ (Calling("optional") /\ ev'.tok.type = "Null") => NullConsumed
       /\ (Calling("optional") /\ has_value(ev'.tok) /\ ev'.tok.type # "Null")
             => PayloadCalled
       /\ Resuming("optional") => PayloadWrapped]_vars

\* the same, the Null case only for a text the tokenizer accepted to its end
C7_NullForNullable_CleanText ==
    [][/\ (Calling("optional") /\ ev'.tok.type = "Null" /\ ~has_error(tokens'))
             => NullConsumed
       /\ (Calling("optional") /\ has_value(ev'.tok) /\ ev'.tok.type # "Null")
             => PayloadCalled
       /\ Resuming("optional") => PayloadWrapped]_vars

(***************************************************************************)
(* C8  Record parse success.  parse_object over StartObject, (Key k_i,     *)
(* value_i)*, EndObject returns Ok exactly when every k_i is a declared    *)
(* field, no k_i occurs twice, every value_i parses as its field's type    *)
(* and every non-optional field's key occurs; on Ok a field whose key      *)
(* occurs holds the parsed value and an optional field whose key does not  *)
(* occur is left as it was; the order of the keys plays no part.           *)
(***************************************************************************)
\* the StartObject matching the EndObject that ends h
Opening(h) ==
    Max({i \in 1..(Len(h) - 1) :
            h[i].type = "StartObject" /\ Depth(h, i - 1) = Depth(h, Len(h))})

\* the keys directly inside the object that the last token of h closes
KeysOfClosed(h) ==
    {j \in (Opening(h) + 1)..(Len(h) - 1) :
        h[j].type = "Key" /\ Depth(h, j - 1) = Depth(h, Opening(h))}

EndCase == ev.op = "object" /\ ev.fetch /\ ev.tok.type = "EndObject"

KeyCase == ev.op = "object" /\ ev.fetch /\ ev.tok.type = "Key"

C8_RecordParseSuccess ==
    /\ EndCase =>
         LET h == tokens.hist
             fields == ev.frame.T.fields
             at(i) == {j \in KeysOfClosed(h) : h[j].value = fields[i].name}
         IN /\ \A j \in KeysOfClosed(h) : h[j].value \in FieldNames(ev.frame.T)
            /\ \A i \in 1..Len(fields) : Cardinality(at(i)) <= 1
            /\ \A i \in 1..Len(fields) : \A j \in at(i) :
                 (fields[i].type.cat = "value") =>
                    is_ok(parse_value(fields[i].type.name, h[j + 1], << >>))
            /\ is_ok(ret) <=>
                 \A i \in 1..Len(fields) :
                    fields[i].type.cat # "optional" => at(i) # {}
            /\ is_ok(ret) =>
                 \A i \in 1..Len(fields) :
                    /\ (at(i) # {} /\ IsScalarField(fields[i].type)) =>
                          ret.value[i] = RefFieldValue(fields[i].type, h[Min(at(i)) + 1])
                    /\ at(i) = {} => ret.value[i] = Default(fields[i].type)
    /\ KeyCase =>
         LET h == tokens.hist
             k == ev.tok.value
         IN (k \notin FieldNames(ev.frame.T) \/ Cardinality(KeyAt(h, k)) >= 2)
               <=> (ret # NoResult /\ ~is_ok(ret))
    /\ (ev.op = "object" /\ ~ev.fetch) => ~is_ok(ret)

\* a record is built from keys that come in the reverse of the declared order
W8_RecordBuiltOutOfOrder ==
    /\ EndCase /\ is_ok(ret)
    /\ ev.frame.T.name = "InnerClassError"
    /\ LET h == tokens.hist
       IN \E i, j \in KeysOfClosed(h) :
             i < j /\ h[i].value = "integer" /\ h[j].value = "str"

\* a record is built although the key of its optional field is missing
W8_OptionalKeyMissing ==
    /\ EndCase /\ is_ok(ret)
    /\ ev.frame.T.name = "InnerClass"
    /\ ret.value[2] = nullopt
    /\ \A j \in KeysOfClosed(tokens.hist) : tokens.hist[j].value = "str"

(***************************************************************************)
(* C9  Error kind on an absent token.  In every rule of the dispatcher and *)
(* in parse_object, when the cursor yields no token the result is a        *)
(* JsonError with the cursor's error message if the tokenizer has failed,  *)
(* and a ParseError "Unexpected end of json" otherwise; either carries the *)
(* cursor's current path, which is present.                                *)
(* The case is a handler asking for the token it goes on to inspect.  The  *)
(* next() by which a handler consumes a token it has already peeked, and   *)
(* whose outcome it discards, belongs to the peek/next contract of the     *)
(* cursor, not to this rule.                                               *)
(***************************************************************************)
NoTokenCase == ev.fetch /\ ~has_value(ev.tok)

W9_TextExhausted ==
    /\ NoTokenCase
    /\ ~has_error(tokens)
    /\ ret = [kind |-> "PARSE_ERROR", error |-> "Unexpected end of json",
              path |-> <<"root">>]

(***************************************************************************)
(* C10  First-error propagation.  When a nested parse returns an error,    *)
(* the enclosing parse returns an error of the same kind, message and      *)
(* path, consumes no further token and returns no value, at every depth.   *)
(***************************************************************************)
NestedFailed == stack # << >> /\ ret # NoResult /\ ~is_ok(ret)

C10_FirstErrorPropagates ==
    [][NestedFailed =>
          /\ ret' = ret
          /\ tokens' = tokens
          /\ stack' = pop_back(stack)]_vars

\* an error raised three calls deep has reached the caller unchanged
W10_ErrorCameUpFromDepth ==
    /\ Done
    /\ ~ev.fetch
    /\ ret.kind = "PARSE_ERROR"
    /\ ret.path = <<"root.inners[0].str">>

(***************************************************************************)
(* Scalar parsing of integers.  The caller parses a text that holds one    *)
(* integer, alone or as the one element of an array, into every integer    *)
(* type; the handler of the tokenizer may be given the integer through any *)
(* of its four integer callbacks whose parameter type holds it.            *)
(***************************************************************************)
IntegerTokens == {"Int", "Uint", "Int64", "Uint64"}

\* the limits of every integer type, their neighbours, and the values of the tests
EdgeValues ==
    UNION {{numeric_min(t) - 1, numeric_min(t), numeric_max(t), numeric_max(t) + 1} :
             t \in IntTypes}
      \cup {-1, 0, 42, 300}

EdgeTokens ==
    {Token(tt, v) : <<tt, v>> \in
        {p \in IntegerTokens \X EdgeValues :
            numeric_min(TokenValueType(p[1])) <= p[2]
              /\ p[2] <= numeric_max(TokenValueType(p[1]))}}

InitScalar ==
    \E t \in IntTypes, tok \in EdgeTokens :
       \/ InitWith(Value(t), Reader("script", <<tok>>, "clean", {}))
       \/ InitWith(Array("vector", Value(t)),
                   Reader("script", <<Token("StartArray", 0), tok, Token("EndArray", 0)>>,
                          "clean", {}))

NextScalar ==
    \/ ParseValue
    \/ ParseArray
    \/ ArrayMember

SpecScalar == InitScalar /\ [][NextScalar]_vars

(***************************************************************************)
(* C6  Range check.  For an integer token (Int, Uint, Int64, Uint64) with  *)
(* value v and an integer target type with range [lo, hi], the scalar      *)
(* parse returns Ok(v) exactly when lo <= v <= hi as mathematical          *)
(* integers, whichever token carries v and whatever the signedness of      *)
(* token and target; otherwise it returns ParseError "Integer value not in *)
(* range" with the current path.                                           *)
(***************************************************************************)
IntegerCase ==
    /\ ev.op = "value" /\ ev.fetch
    /\ ev.tok.type \in IntegerTokens
    /\ ev.frame.T.name \in IntTypes

C6_RangeCheck ==
    IntegerCase =>
      LET v == ev.tok.value
          R == ev.frame.T.name
      IN ret = IF numeric_min(R) <= v /\ v <= numeric_max(R)
                 THEN [kind |-> "NO_ERROR", value |-> v]
                 ELSE [kind |-> "PARSE_ERROR", error |-> "Integer value not in range",
                       path |-> <<RefPath(tokens.hist)>>]

\* -1 is refused by an unsigned target as wide as the token, inside an array
W6_NegativeIntoUnsigned ==
    /\ IntegerCase
    /\ ev.tok = Token("Int", -1)
    /\ ev.frame.T.name = "uint32"
    /\ ret = [kind |-> "PARSE_ERROR", error |-> "Integer value not in range",
              path |-> <<"root[0]">>]

(***************************************************************************)
(* dump<T> (Json.hpp, Serializer.hpp, SerializationHelper.hpp,             *)
(* SimpleWriter.hpp).  The text rapidjson::Writer puts out is a sequence   *)
(* of lexemes [lex, neg, mag, s, call]: a word (null, true, false), a      *)
(* bracket, a number in decimal (sign and magnitude) or a string, each     *)
(* with the member of rapidjson::Writer whose call put it out; the commas  *)
(* and colons, which the writer sets and the reader skips, are left out.   *)
(***************************************************************************)
\* The most elements a dumped container holds.
MaxElems == 2

Lexeme(lex) ==
    [lex |-> lex, neg |-> FALSE, mag |-> 0, s |-> "",
     call |-> CASE lex = "null" -> "Null"
                [] lex \in {"true", "false"} -> "Bool"
                [] lex = "{" -> "StartObject"
                [] lex = "}" -> "EndObject"
                [] lex = "[" -> "StartArray"
                [] lex = "]" -> "EndArray"]

Decimal(i) ==
    [lex |-> "number", neg |-> i < 0, mag |-> IF i < 0 THEN 0 - i ELSE i, s |-> "",
     call |-> "number"]

\* rapidjson::Writer::Int(int), Uint(unsigned), Int64(int64_t), Uint64(uint64_t):
\* the argument is converted to the type of the parameter
Writer_Int(val) == [Decimal(static_cast("int32", val)) EXCEPT !.call = "Int"]

Writer_Uint(val) == [Decimal(static_cast("uint32", val)) EXCEPT !.call = "Uint"]

Writer_Int64(val) == [Decimal(static_cast("int64", val)) EXCEPT !.call = "Int64"]

Writer_Uint64(val) == [Decimal(static_cast("uint64", val)) EXCEPT !.call = "Uint64"]

\* a faulty variant of SimpleWriter::integer: the 64-bit calls are never made
integer_narrow(tt, val) ==
    IF val > 0 THEN Writer_Uint(val) ELSE Writer_Int(val)

\* SimpleWriter::integer for a value of type tt
integer(tt, val) ==
    IF val > 0
      THEN (IF in_range("uint32", tt, val) THEN Writer_Uint(val)
                                             ELSE Writer_Uint64(val))
      ELSE (IF in_range("int32", tt, val) THEN Writer_Int(val)
                                            ELSE Writer_Int64(val))

\* SimpleWriter::boolean
boolean(val) == Lexeme(IF val THEN "true" ELSE "false")

\* SimpleWriter::string
WriteString(val) == [lex |-> "string", neg |-> FALSE, mag |-> 0, s |-> val, call |-> "String"]

\* SimpleWriter::key
WriteKey(val) == [WriteString(val) EXCEPT !.call = "Key"]

\* Serializer::dump of a scalar
dump_value(T, val) ==
    IF T.name = "bool" THEN boolean(val)
    ELSE IF T.name \in IntTypes THEN integer(T.name, val)
    ELSE WriteString(val)

\* the keys a dumped dict may have, in the order of std::less<std::string>
DictKeys == <<"a", "b">>

\* the orders in which the elements of the set S may be visited
Orders(S) ==
    {f \in [1..Cardinality(S) -> S] : \A i, j \in 1..Cardinality(S) : i # j => f[i] # f[j]}

\* a faulty variant of Iterations: a vector is visited from its last element
Iterations_reversed(T, val) ==
    CASE T.name = "vector" -> {[i \in 1..Len(val) |-> val[Len(val) + 1 - i]]}
      [] T.name = "set" ->
           {f \in Orders(val) : \A i \in 1..(Len(f) - 1) : f[i] < f[i + 1]}
      [] OTHER -> Orders(val)

\* for (const auto &m : value): a vector in the order of its indices, a
\* std::set in ascending order, a std::unordered_set in an order of its own
Iterations(T, val) ==
    CASE T.name = "vector" -> {val}
      [] T.name = "set" ->
           {f \in Orders(val) : \A i \in 1..(Len(f) - 1) : f[i] < f[i + 1]}
      [] OTHER -> Orders(val)

\* for (const auto &[k, v] : value): a std::map in the order of its keys, a
\* std::unordered_map in an order of its own
KeyIterations(T, val) ==
    IF T.name = "map"
      THEN {f \in Orders(DOMAIN val) :
              \A i, j \in 1..Len(f) :
                 i < j => \E a, b \in 1..Len(DictKeys) :
                             a < b /\ DictKeys[a] = f[i] /\ DictKeys[b] = f[j]}
      ELSE Orders(DOMAIN val)

RECURSIVE dump(_, _), dump_members(_, _), dump_entries(_, _, _), dump_fields(_, _, _)

\* the body of for (const auto &m : value) of Serializer::dump, members vs
dump_members(T, vs) ==
    IF vs = << >> THEN {<< >>}
    ELSE {a \o b : a \in dump(T.of[1], Head(vs)), b \in dump_members(T, Tail(vs))}

\* the body of for (const auto &[k, v] : value) of Serializer::dump, keys ks
dump_entries(T, val, ks) ==
    IF ks = << >> THEN {<< >>}
    ELSE {<<WriteKey(Head(ks))>> \o a \o b :
             a \in dump(T.of[1], val[Head(ks)]), b \in dump_entries(T, val, Tail(ks))}

\* the fold of SerializationHelper::dump over the fields from the i-th on
dump_fields(T, val, i) ==
    IF i > Len(T.fields) THEN {<< >>}
    ELSE {<<WriteKey(T.fields[i].name)>> \o a \o b :
             a \in dump(T.fields[i].type, val[i]), b \in dump_fields(T, val, i + 1)}

\* Serializer::dump<T>(value, writer): the texts the writer may end with
dump(T, val) ==
    CASE T.cat = "value" -> {<<dump_value(T, val)>>}
      [] T.cat = "optional" ->
           IF val.has THEN dump(T.of[1], val.v) ELSE {<<Lexeme("null")>>}
      [] T.cat = "array" ->
           UNION {{<<Lexeme("[")>> \o m \o <<Lexeme("]")>> : m \in dump_members(T, vs)} :
                    vs \in Iterations(T, val)}
      [] T.cat = "dict" ->
           UNION {{<<Lexeme("{")>> \o m \o <<Lexeme("}")>> : m \in dump_entries(T, val, ks)} :
                    ks \in KeyIterations(T, val)}
      [] T.cat = "object" ->
           {<<Lexeme("{")>> \o m \o <<Lexeme("}")>> : m \in dump_fields(T, val, 1)}

(***************************************************************************)
(* The reader on a text of lexemes: what rapidjson::Reader hands to the    *)
(* handler for each (ParseNumber picks the callback by the sign and the    *)
(* size of the number; a string in the place of a key is a Key).           *)
(***************************************************************************)
ParseNumber(l) ==
    IF l.neg
      THEN (IF l.mag <= 0 - numeric_min("int32") THEN Token("Int", 0 - l.mag)
                                                 ELSE Token("Int64", 0 - l.mag))
      ELSE (IF l.mag <= numeric_max("uint32") THEN Token("Uint", l.mag)
                                              ELSE Token("Uint64", l.mag))

Transit(nest, l) ==
    CASE l.lex = "null"   -> Token("Null", 0)
      [] l.lex = "true"   -> Token("Bool", TRUE)
      [] l.lex = "false"  -> Token("Bool", FALSE)
      [] l.lex = "number" -> ParseNumber(l)
      [] l.lex = "string" -> IF nest # << >> /\ back(nest) = "ObjectKey"
                               THEN Token("Key", l.s) ELSE Token("String", l.s)
      [] l.lex = "{"      -> Token("StartObject", 0)
      [] l.lex = "}"      -> Token("EndObject", 0)
      [] l.lex = "["      -> Token("StartArray", 0)
      [] l.lex = "]"      -> Token("EndArray", 0)

\* the tokens of a whole text
Tokenize(text) ==
    LET F[i \in 0..Len(text)] ==
            IF i = 0 THEN [toks |-> << >>, nest |-> << >>]
            ELSE LET p == F[i - 1]
                     t == Transit(p.nest, text[i])
                 IN [toks |-> Append(p.toks, t), nest |-> NestAfter(p.nest, t)]
    IN F[Len(text)].toks

(***************************************************************************)
(* The round trip parse<T>(dump<T>(v)).                                    *)
(***************************************************************************)
\* the classes of tests/Serialization.cpp
OuterClass ==
    Object("OuterClass",
           <<Field("boolean", bool), Field("str", string),
             Field("inners", Array("vector", InnerClass))>>)

RoundTripTypes ==
    {Value(t) : t \in IntTypes} \cup
    {bool, string,
     Optional(int8), Optional(string), Optional(Optional(int8)), Optional(InnerClass),
     Array("vector", Value("int64")), Array("set", int8),
     Array("unordered_set", string), Array("vector", Optional(bool)),
     Array("vector", Optional(Optional(bool))),
     Dict("map", Value("uint64")), Dict("unordered_map", Optional(Value("int16"))),
     Dict("map", Array("vector", bool)),
     InnerClass, OuterClass}

\* the values of type T the caller dumps
RECURSIVE Values(_), Records(_, _)

\* the objects of class T, from the i-th field on
Records(T, i) ==
    IF i > Len(T.fields) THEN {<< >>}
    ELSE {<<v>> \o r : v \in Values(T.fields[i].type), r \in Records(T, i + 1)}

Values(T) ==
    CASE T.cat = "value" ->
           (IF T.name = "bool" THEN BOOLEAN
            ELSE IF T.name = "string" THEN {"", "s"}
            ELSE {numeric_min(T.name), numeric_max(T.name), 0, 1}
                    \cup (IF is_signed(T.name) THEN {-1} ELSE {}))
      [] T.cat = "optional" -> {nullopt} \cup {Some(v) : v \in Values(T.of[1])}
      [] T.cat = "array" ->
           IF T.name = "vector"
             THEN UNION {[1..n -> Values(T.of[1])] : n \in 0..MaxElems}
             ELSE {S \in SUBSET Values(T.of[1]) : Cardinality(S) <= MaxElems}
      [] T.cat = "dict" ->
           UNION {[K -> Values(T.of[1])] :
                    K \in {S \in SUBSET {DictKeys[i] : i \in 1..Len(DictKeys)} :
                             Cardinality(S) <= MaxElems}}
      [] T.cat = "object" -> Records(T, 1)

InitRoundTrip ==
    \E T \in RoundTripTypes :
       \E v \in Values(T) :
          \E text \in dump(T, v) :
             /\ given = v
             /\ written = text
             /\ InitCall(T, Reader("script", Tokenize(text), "clean", {}))

NextRoundTrip ==
    \/ ParseValue
    \/ ParseOptional
    \/ OptionalMember
    \/ ParseArray
    \/ ArrayMember
    \/ ParseDict
    \/ DictMember
    \/ ParseObject
    \/ ObjectMember

SpecRoundTrip == InitRoundTrip /\ [][NextRoundTrip]_vars

\* a std::optional whose value_type is a std::optional occurs in T
RECURSIVE NestsOptional(_)
NestsOptional(T) ==
    \/ T.cat = "optional" /\ T.of[1].cat = "optional"
    \/ \E i \in 1..Len(T.of) : NestsOptional(T.of[i])
    \/ \E i \in 1..Len(T.fields) : NestsOptional(T.fields[i].type)

(***************************************************************************)
(* C1  Round trip.  For every value v built from booleans, bounded         *)
(* integers, strings, nullables, sequences, string-keyed maps and records, *)
(* parse<T>(dump<T>(v)) returns Ok with a value equal to v.                *)
(***************************************************************************)
C1_RoundTrip == Done => ret = result(given)

\* the same for the types in which no nullable holds a nullable
C1_RoundTripFlatNullables == (Done /\ ~NestsOptional(root)) => ret = result(given)

\* a record with a sequence of records, one of them with an absent nullable,
\* has come back
W1_NestedRecordCameBack ==
    /\ Done
    /\ root = OuterClass
    /\ ret = result(given)
    /\ Len(given[3]) = MaxElems
    /\ given[3][1][2] = nullopt

(***************************************************************************)
(* Scalar parsing of any token.  The caller parses into a scalar type a    *)
(* text whose first token the handler gets through any of its callbacks;   *)
(* after a failure on an opening bracket the caller may parse again, and   *)
(* then the scalar parse meets a Key, an EndObject or an EndArray.         *)
(***************************************************************************)
ScalarTypes == {"bool", "float", "double", "string"} \cup IntTypes

OpeningTokens ==
    {Token("Null", 0), Token("Bool", TRUE), Token("Bool", FALSE),
     Token("Double", Double(3)), Token("Double", Double(-1)),
     Token("RawNumber", "1"), Token("String", "s"), Token("String", "")}
      \cup EdgeTokens

MatrixTexts ==
    {<<t>> : t \in OpeningTokens}
      \cup {<<Token("StartObject", 0), Token("Key", "a")>>,
            <<Token("StartObject", 0), Token("EndObject", 0)>>,
            <<Token("StartArray", 0), Token("EndArray", 0)>>,
            <<Token("StartArray", 0), Token("Uint", 42)>>}

InitMatrix ==
    \E t \in ScalarTypes, text \in MatrixTexts :
       InitWith(Value(t), Reader("script", text, "clean", {}))

NextMatrix ==
    \/ ParseValue
    \/ ParseAgain

SpecMatrix == InitMatrix /\ [][NextMatrix]_vars

\* a scalar parse was given a token
ScalarCase == ev.op = "value" /\ ev.fetch /\ has_value(ev.tok)

\* exactly the tokens handed out so far have been pulled, and none is cached
ConsumedAll == ~has_token(tokens) /\ tokens.taken = Len(tokens.hist)

FloatingTypes == {"float", "double"}

(***************************************************************************)
(* C11  Scalar token/target matrix for booleans and numbers.  A scalar     *)
(* parse consumes exactly one token and succeeds only for: a Bool token    *)
(* into bool; an Int, Uint, Int64 or Uint64 token into an integer target   *)
(* (if the value is in range) or into a floating-point target; a Double    *)
(* token into a floating-point target.  Every other pair, and every token  *)
(* that carries no scalar, is a ParseError at the current path.            *)
(***************************************************************************)
C11_ScalarMatrix ==
    (ScalarCase /\ ev.frame.T.name # "string") =>
      LET T == ev.frame.T.name
          t == ev.tok
          integral == t.type \in IntegerTokens
          fits == numeric_min(T) <= t.value /\ t.value <= numeric_max(T)
      IN /\ ConsumedAll
         /\ tokens.taken = tokens.tracked
         /\ IF t.type = "Bool" /\ T = "bool" THEN ret = result(t.value)
            ELSE IF integral /\ T \in IntTypes /\ fits THEN ret = result(t.value)
            ELSE IF integral /\ T \in FloatingTypes THEN ret = result(Double(2 * t.value))
            ELSE IF t.type = "Double" /\ T \in FloatingTypes THEN ret = result(t.value)
            ELSE /\ is_parse_error(ret)
                 /\ ret.path = <<RefPath(tokens.hist)>>

\* an integer at the limit of the widest type is widened to a double
W11_IntegerWidened ==
    /\ ScalarCase
    /\ ev.tok = Token("Uint64", numeric_max("uint64"))
    /\ ev.frame.T.name = "double"
    /\ is_ok(ret)

(***************************************************************************)
(* C12  A string target accepts only String tokens.  A scalar parse into   *)
(* std::string returns Ok(s) exactly when the token is String(s); every    *)
(* other token, RawNumber included, is a ParseError at the current path.   *)
(***************************************************************************)
C12_StringOnlyFromString ==
    (ScalarCase /\ ev.frame.T.name = "string") =>
      IF ev.tok.type = "String" THEN ret = result(ev.tok.value)
      ELSE /\ is_parse_error(ret)
           /\ ret.path = <<RefPath(tokens.hist)>>

\* the same, leaving out the RawNumber callback
C12_StringOnlyFromString_NoRawNumber ==
    (ScalarCase /\ ev.frame.T.name = "string" /\ ev.tok.type # "RawNumber") =>
      IF ev.tok.type = "String" THEN ret = result(ev.tok.value)
      ELSE /\ is_parse_error(ret)
           /\ ret.path = <<RefPath(tokens.hist)>>

\* a dict of scalars was parsed, by the caller's first call, to an Ok
FlatDictParsed ==
    /\ root = Dict("map", int8)
    /\ calls = 1
    /\ Done
    /\ is_ok(ret)

\* the positions in h of the key k
Occurrences(h, k) == {i \in 1..Len(h) : h[i] = Token("Key", k)}

KeysIn(h) == {h[i].value : i \in {j \in 1..Len(h) : h[j].type = "Key"}}

(***************************************************************************)
(* C13  Duplicate keys of a map are last-write-wins.  Parsing a JSON       *)
(* object into a map never fails because a key is repeated, and the map    *)
(* holds for each key the value of the LAST occurrence of the key.         *)
(***************************************************************************)
C13_DictLastWriteWins ==
    FlatDictParsed =>
      /\ DOMAIN ret.value = KeysIn(tokens.hist)
      /\ \A k \in DOMAIN ret.value :
           ret.value[k] = tokens.hist[Max(Occurrences(tokens.hist, k)) + 1].value

\* what the code does: the map holds the value of the FIRST occurrence
C13_DictFirstWriteWins ==
    FlatDictParsed =>
      /\ DOMAIN ret.value = KeysIn(tokens.hist)
      /\ \A k \in DOMAIN ret.value :
           ret.value[k] = tokens.hist[Min(Occurrences(tokens.hist, k)) + 1].value

\* a key repeated with another value, and the parse succeeded
W13_KeyRepeated ==
    /\ FlatDictParsed
    /\ \E k \in KeysIn(tokens.hist) :
         \E i, j \in Occurrences(tokens.hist, k) :
            i < j /\ tokens.hist[i + 1] # tokens.hist[j + 1]

\* a sequence parse returned on a first token that does not open an array
NotAnArrayCase ==
    /\ ev.op = "array" /\ ev.fetch /\ ret # NoResult
    /\ has_value(ev.tok)
    /\ ev.tok.type \notin {"StartArray", "EndArray"}

\* a sequence of scalars or of nullable scalars was parsed, by the caller's
\* first call, to an Ok
FlatArrayParsed ==
    /\ root.cat = "array" /\ IsScalarField(root.of[1])
    /\ calls = 1
    /\ Done
    /\ is_ok(ret)

\* the elements of the array in the text, in input order
RefElements(T, h) == [i \in 1..(Len(h) - 2) |-> RefFieldValue(T.of[1], h[i + 1])]

Range(q) == {q[i] : i \in DOMAIN q}

(***************************************************************************)
(* C14  Sequence parse result.  Parsing a sequence requires StartArray as  *)
(* the first token (any other token is a ParseError); on Ok an             *)
(* order-preserving container equals the list of the parsed elements in    *)
(* input order, a set-like container equals the set of the parsed elements *)
(* (duplicates collapsed), and an empty array yields an empty container.   *)
(***************************************************************************)
C14_SequenceResult ==
    /\ NotAnArrayCase => is_parse_error(ret)
    /\ FlatArrayParsed =>
         /\ tokens.hist[1].type = "StartArray"
         /\ back(tokens.hist).type = "EndArray"
         /\ ret.value = IF root.name = "vector"
                          THEN RefElements(root, tokens.hist)
                          ELSE Range(RefElements(root, tokens.hist))

\* a set was parsed from an array that holds an element twice
W14_DuplicatesCollapsed ==
    /\ FlatArrayParsed
    /\ root.name = "set"
    /\ Len(tokens.hist) = 5
    /\ Cardinality(ret.value) = 2

\* a vector was parsed from an array of different elements
W14_OrderKept ==
    /\ FlatArrayParsed
    /\ root.name = "vector"
    /\ \E i, j \in DOMAIN ret.value : ret.value[i] # ret.value[j]

(***************************************************************************)
(* dump<T>(v) alone: the caller dumps one value.                           *)
(***************************************************************************)
InitDump ==
    \E T \in RoundTripTypes :
       \E v \in Values(T) :
          /\ given = v
          /\ written = << >>
          /\ tokens = ContextTokenStream(Reader("script", << >>, "clean", {}))
          /\ stack = << >>
          /\ ret = NoResult
          /\ root = T
          /\ calls = 0
          /\ ev = Event("start", FALSE, NoToken, Frame(T))
          /\ earlier = << >>

\* Serializer::dump<T>(value, writer) from its call to its return
Dump ==
    /\ written = << >>
    /\ written' \in dump(root, given)
    /\ UNCHANGED <<tokens, stack, ret, root, calls, ev, given, earlier>>

NextDump == Dump

SpecDump == InitDump /\ [][NextDump]_vars

Dumped == written # << >>

\* the call on the SimpleWriter that put out the lexeme l
WriterEvent(l) ==
    CASE l.call \in {"Int", "Uint", "Int64", "Uint64"} ->
           <<"integer", IF l.neg THEN 0 - l.mag ELSE l.mag>>
      [] l.call = "Bool"        -> <<"boolean", l.lex = "true">>
      [] l.call = "String"      -> <<"string", l.s>>
      [] l.call = "Key"         -> <<"key", l.s>>
      [] l.call = "Null"        -> <<"null">>
      [] l.call = "StartObject" -> <<"start_object">>
      [] l.call = "EndObject"   -> <<"end_object">>
      [] l.call = "StartArray"  -> <<"start_array">>
      [] l.call = "EndArray"    -> <<"end_array">>

WriterEvents(text) == [i \in 1..Len(text) |-> WriterEvent(text[i])]

\* the orders in which a container of kind box holding S is iterated
RefOrders(box, S) ==
    IF box \in {"unordered_set", "unordered_map"} THEN Orders(S)
    ELSE {f \in Orders(S) : \A i, j \in 1..Cardinality(S) :
                              i < j => IF box = "set" THEN f[i] < f[j]
                                       ELSE f[i] = "a" /\ f[j] = "b"}

\* the reference function D: the event sequences of the value val of type T;
\* DEach(items) is the sequences that hold, for each item in turn, its
\* events pre and then the events of its value v of type T
RECURSIVE D(_, _), DEach(_)
DEach(items) ==
    IF items = << >> THEN {<< >>}
    ELSE {Head(items).pre \o a \o b :
            a \in D(Head(items).T, Head(items).v), b \in DEach(Tail(items))}

D(T, val) ==
    CASE T.cat = "value" ->
           {<<CASE T.name = "bool" -> <<"boolean", val>>
                [] T.name = "string" -> <<"string", val>>
                [] OTHER -> <<"integer", val>>>>}
      [] T.cat = "optional" ->
           IF val = nullopt THEN {<<<<"null">>>>} ELSE D(T.of[1], val.v)
      [] T.cat = "array" ->
           UNION {{<<<<"start_array">>>> \o m \o <<<<"end_array">>>> :
                     m \in DEach([i \in 1..Len(es) |->
                                    [pre |-> << >>, T |-> T.of[1], v |-> es[i]]])} :
                  es \in IF T.name = "vector" THEN {val} ELSE RefOrders(T.name, val)}
      [] T.cat = "dict" ->
           UNION {{<<<<"start_object">>>> \o m \o <<<<"end_object">>>> :
                     m \in DEach([i \in 1..Len(ks) |->
                                    [pre |-> <<<<"key", ks[i]>>>>, T |-> T.of[1],
                                     v |-> val[ks[i]]]])} :
                  ks \in RefOrders(T.name, DOMAIN val)}
      [] T.cat = "object" ->
           {<<<<"start_object">>>> \o m \o <<<<"end_object">>>> :
              m \in DEach([i \in 1..Len(T.fields) |->
                             [pre |-> <<<<"key", T.fields[i].name>>>>,
                              T |-> T.fields[i].type, v |-> val[i]]])}

(***************************************************************************)
(* C15  Dump event sequence.  dump never fails and emits exactly the       *)
(* writer events of the reference function D: a scalar is one primitive    *)
(* call; a nullable is null if absent, else D of the held value; a         *)
(* sequence is start_array, D(e) of each element in iteration order,       *)
(* end_array; a map is start_object, key(k) then D(v) of each entry in     *)
(* container order, end_object; a record is start_object, key(name) then   *)
(* D(field) in declaration order, end_object.                              *)
(***************************************************************************)
C15_DumpEvents ==
    /\ ~Dumped => dump(root, given) # {}
    /\ Dumped => WriterEvents(written) \in D(root, given)

\* a record that holds a sequence of records was dumped
W15_NestedRecordDumped ==
    /\ Dumped
    /\ root = OuterClass
    /\ Len(given[3]) = MaxElems
    /\ given[3][1][2] # nullopt

(***************************************************************************)
(* C16  Integer emission sign policy.  When an integer is dumped, the      *)
(* writer uses a signed primitive (Int or Int64) exactly when the value is *)
(* negative, and an unsigned primitive (Uint or Uint64) for every          *)
(* non-negative value, zero included.                                      *)
(***************************************************************************)
C16_SignPolicy ==
    \A i \in 1..Len(written) :
       written[i].lex = "number" =>
         /\ written[i].neg => written[i].call \in {"Int", "Int64"}
         /\ ~written[i].neg => written[i].call \in {"Uint", "Uint64"}

\* the same, for every value but zero
C16_SignPolicy_NonZero ==
    \A i \in 1..Len(written) :
       (written[i].lex = "number" /\ written[i].mag # 0) =>
         /\ written[i].neg => written[i].call \in {"Int", "Int64"}
         /\ ~written[i].neg => written[i].call \in {"Uint", "Uint64"}

(***************************************************************************)
(* DeserializationHelper::parse_from (DeserializationHelper.hpp:187-202),  *)
(* run by the json_parse of a class that is made from a value of another   *)
(* type S by a conversion function f: [cat "from", name, of <<S>>].        *)
(***************************************************************************)
From(n, S) == [cat |-> "from", name |-> n, of |-> <<S>>, fields |-> << >>]

\* the classes of tests/Deserialization.cpp that are made from a string
FromStringClass == From("FromStringClass", string)

FromStringResultClass == From("FromStringResultClass", string)

\* is_parse_result_v<ReturnT>: f returns a ParseResult
is_parse_result(T) == T.name = "FromStringResultClass"

\* the strings of the texts
Strings == {"", "s", "example", "custom_", "custom_example"}

\* str.compare(0, prefix.length(), prefix) == 0 for the prefix "custom_"
HasPrefix(str) == str \in {"custom_", "custom_example"}

\* f(s): the lambdas of the two json_parse; a class is the sequence of its fields
conversion(T, str) ==
    IF ~is_parse_result(T) THEN <<str>>
    ELSE IF HasPrefix(str) THEN result(<<str>>)
    ELSE parse_error("Expected string with prefix: custom_", << >>)

\* parse_from up to the call of parse<T>
ParseFrom ==
    /\ Calling("from")
    /\ Enter(tokens, top, top.T.of[1], Event("from", FALSE, NoToken, top))

\* parse_from after it; the frame of the event holds in acc the arguments f
\* was called with
FromMember ==
    /\ Resuming("from")
    /\ IF ~is_ok(ret)
         THEN Return(tokens, convert_error(ret),
                     Event("from", FALSE, NoToken, [top EXCEPT !.acc = << >>]))
         ELSE Return(tokens,
                     IF is_parse_result(top.T) THEN conversion(top.T, ret.value)
                                               ELSE result(conversion(top.T, ret.value)),
                     Event("from", FALSE, NoToken, [top EXCEPT !.acc = <<ret.value>>]))

FromTypes ==
    {FromStringClass, FromStringResultClass,
     Optional(FromStringResultClass),
     Array("vector", FromStringClass), Array("vector", FromStringResultClass),
     Dict("map", FromStringResultClass)}

\* the texts: a value, or up to two values in an array or in an object
FromValues ==
    {<<Token("String", str)>> : str \in Strings}
      \cup {<<Token("Uint", 1)>>, <<Token("Null", 0)>>,
            <<Token("StartArray", 0), Token("EndArray", 0)>>}

FromTexts(T) ==
    IF T.cat = "array"
      THEN {<<Token("StartArray", 0)>> \o a \o b \o <<Token("EndArray", 0)>> :
              a \in FromValues, b \in FromValues \cup {<< >>}}
    ELSE IF T.cat = "dict"
      THEN {<<Token("StartObject", 0), Token("Key", "a")>> \o a
              \o <<Token("Key", "b")>> \o b \o <<Token("EndObject", 0)>> :
              a \in FromValues, b \in FromValues}
    ELSE FromValues

InitFrom ==
    \E T \in FromTypes :
       \E text \in FromTexts(T), tail \in {"clean", "cut"} :
          InitWith(T, Reader("script", text, tail, {}))

NextFrom ==
    \/ ParseFrom
    \/ FromMember
    \/ ParseValue
    \/ ParseOptional
    \/ OptionalMember
    \/ ParseArray
    \/ ArrayMember
    \/ ParseDict
    \/ DictMember

SpecFrom == InitFrom /\ [][NextFrom]_vars

(***************************************************************************)
(* C17  parse_from<S>(cursor, f).  If parsing S fails, parse_from returns  *)
(* that error with the same kind, message and path, and f is never         *)
(* invoked; if parsing S returns Ok(s), the result is Ok(f(s)) when f is   *)
(* total and exactly the Result f(s) returns when f is fallible, so a      *)
(* conversion error carries precisely the path f supplied: none when f     *)
(* supplied none, even with a path-tracking cursor.                        *)
(***************************************************************************)
C17_ParseFrom ==
    [][Resuming("from") =>
         /\ ev'.op = "from"
         /\ IF ~is_ok(ret)
              THEN /\ ret'.kind = ret.kind
                   /\ ret'.error = ret.error
                   /\ ret'.path = ret.path
                   /\ ev'.frame.acc = << >>
            ELSE /\ ev'.frame.acc = <<ret.value>>
                 /\ IF top.T = FromStringClass THEN ret' = result(<<ret.value>>)
                    ELSE IF HasPrefix(ret.value) THEN ret' = result(<<ret.value>>)
                    ELSE /\ is_parse_error(ret')
                         /\ ret'.error = "Expected string with prefix: custom_"
                         /\ ret'.path = << >>]_vars

\* inside an array, where the cursor's path is root[1], the parse of the
\* string failed and the error came back from parse_from with its path
W17_InnerErrorKept ==
    /\ ev.op = "from"
    /\ ev.frame.acc = << >>
    /\ is_parse_error(ret)
    /\ ret.path = <<"root[1]">>

\* inside an array the conversion refused the string: the error has no path
W17_ConversionRefused ==
    /\ ev.op = "from"
    /\ ev.frame.acc = <<"example">>
    /\ is_parse_error(ret)
    /\ ret.path = << >>
    /\ get_path(tokens) = <<"root[1]">>

(***************************************************************************)
(* Texts with a trailing comma.  TokenStream runs the reader with          *)
(* kParseTrailingCommasFlag (TokenStream.hpp:203-205): a comma between the *)
(* last member of an array or an object and its closing bracket is         *)
(* skipped; without the flag the reader stops at the bracket with a parse  *)
(* error.  The other commas of a text stay left out.                       *)
(***************************************************************************)
\* a faulty variant of flags: trailing commas are not allowed
flags_iterative_only == {"kParseIterativeFlag"}

\* TokenStream::flags
flags == {"kParseIterativeFlag", "kParseTrailingCommasFlag"}

Comma == [lex |-> ",", neg |-> FALSE, mag |-> 0, s |-> "", call |-> ""]

\* the closing brackets of the non-empty arrays and objects of a text
TrailingPositions(text) ==
    {i \in 2..Len(text) : text[i].lex \in {"]", "}"} /\ text[i - 1].lex \notin {"[", "{"}}

WithComma(text, i) == SubSeq(text, 1, i - 1) \o <<Comma>> \o SubSeq(text, i, Len(text))

\* the reader on the text json, as m_reader.IterativeParseNext<flags> reads it
ReadText(json) ==
    LET commas == {i \in 1..Len(json) : json[i] = Comma}
        IsLexeme(l) == l # Comma
    IN IF commas = {} \/ "kParseTrailingCommasFlag" \in flags
         THEN Reader("script", Tokenize(SelectSeq(json, IsLexeme)), "clean", {})
         ELSE Reader("script", Tokenize(SubSeq(json, 1, Min(commas) - 1)), "cut", {})

\* a class with one field, to write texts that lack a key of InnerClassError
StrOnly == Object("StrOnly", <<Field("str", string)>>)

\* the texts are dumps of a value of type from, parsed into the type to
CommaCases ==
    {[from |-> Array("vector", int8), to |-> Array("vector", int8)],
     [from |-> Array("vector", int8), to |-> Array("set", int8)],
     [from |-> Array("vector", int8), to |-> Array("vector", Value("uint8"))],
     [from |-> Array("vector", Optional(bool)), to |-> Array("vector", Optional(bool))],
     [from |-> Dict("map", Value("uint64")), to |-> Dict("map", Value("uint64"))],
     [from |-> Dict("map", Value("uint64")), to |-> Dict("map", int8)],
     [from |-> Dict("map", Array("vector", bool)), to |-> Dict("map", Array("vector", bool))],
     [from |-> Dict("map", Array("vector", bool)), to |-> Dict("map", Array("set", bool))],
     [from |-> InnerClass, to |-> InnerClass],
     [from |-> InnerClass, to |-> InnerClassError],
     [from |-> InnerClass, to |-> Dict("map", string)],
     [from |-> StrOnly, to |-> InnerClass],
     [from |-> StrOnly, to |-> InnerClassError],
     [from |-> Optional(InnerClass), to |-> Optional(InnerClass)]}

PlainTexts(T) == UNION {dump(T, v) : v \in Values(T)}

\* parse<T>(json) of a text with one trailing comma; written is the text
\* without the comma
InitComma ==
    \E cs \in CommaCases :
       \E text \in PlainTexts(cs.from) :
          \E i \in TrailingPositions(text) :
             /\ given = NotDumped
             /\ written = text
             /\ InitCall(cs.to, ReadText(WithComma(text, i)))

\* the caller's next parse<T>(json), with the cursor c
Reparse(c) ==
    /\ Done
    /\ earlier = << >>
    /\ earlier' = <<ret>>
    /\ tokens' = c
    /\ stack' = <<Frame(root)>>
    /\ ret' = NoResult
    /\ ev' = Event("start", FALSE, NoToken, Frame(root))
    /\ UNCHANGED <<root, calls, given, written>>

\* parse<T>(json) of the text without the comma
ParsePlain == Reparse(ContextTokenStream(ReadText(written)))

NextComma ==
    \/ ParsePlain
    \/ ParseValue
    \/ ParseOptional
    \/ OptionalMember
    \/ ParseArray
    \/ ArrayMember
    \/ ParseDict
    \/ DictMember
    \/ ParseObject
    \/ ObjectMember

SpecComma == InitComma /\ [][NextComma]_vars

BothParsed == Done /\ earlier # << >>

W18_MissingKeyTwice ==
    /\ BothParsed
    /\ root = InnerClassError
    /\ is_parse_error(ret)
    /\ ev.tok.type = "EndObject"

(***************************************************************************)
(* The same text parsed twice.  The texts are the dumps of CommaCases and  *)
(* what is left of them when they break off, alone or followed by more     *)
(* input.                                                                  *)
(***************************************************************************)
InitSameText ==
    \E cs \in CommaCases :
       \E text \in PlainTexts(cs.from) :
          \E n \in 0..Len(text) :
             \E tail \in IF n < Len(text) THEN {"cut"} ELSE {"clean", "garbage"} :
                InitWith(cs.to, Reader("script", SubSeq(Tokenize(text), 1, n), tail, {}))

\* a faulty variant of FreshStream: the cursor of the call before is used again
StaleStream(c) == c

\* rapidjson::StringStream ss(json.c_str()); ContextTokenStream tokens(ss):
\* a new cursor on the text the cursor c was made for, which is what c has
\* read of it and what it has not
FreshStream(c) ==
    ContextTokenStream(Reader("script", c.hist \o c.rd.script, c.rd.tail, {}))

\* parse<T>(json) of the same text
ParseSame == Reparse(FreshStream(tokens))

NextSameText ==
    \/ ParseSame
    \/ ParseValue
    \/ ParseOptional
    \/ OptionalMember
    \/ ParseArray
    \/ ArrayMember
    \/ ParseDict
    \/ DictMember
    \/ ParseObject
    \/ ObjectMember

SpecSameText == InitSameText /\ [][NextSameText]_vars

InitCursor ==
    \E cs \in CommaCases :
       \E text \in PlainTexts(cs.from) :
          \E n \in 0..Len(text) :
             \E tail \in IF n < Len(text) THEN {"cut"} ELSE {"clean", "garbage"} :
                /\ tokens = ContextTokenStream(
                              Reader("script", SubSeq(Tokenize(text), 1, n), tail, {}))
                /\ stack = << >>
                /\ ret = NoResult
                /\ root = cs.to
                /\ calls = 0
                /\ ev = Event("start", FALSE, NoToken, Frame(cs.to))
                /\ given = NotDumped
                /\ written = << >>
                /\ earlier = << >>

\* tokens.peek(); the event holds what it returned
CursorPeek ==
    /\ calls = 0
    /\ \E p \in peek(tokens) :
         /\ tokens' = p.c
         /\ ev' = Event("peek", TRUE, p.token, ev.frame)
    /\ UNCHANGED <<stack, ret, root, calls, given, written, earlier>>

\* tokens.next(); the event holds what it returned
CursorNext ==
    /\ calls = 0
    /\ \E n \in next(tokens) :
         /\ tokens' = n.c
         /\ ev' = Event("next", TRUE, n.token, ev.frame)
    /\ UNCHANGED <<stack, ret, root, calls, given, written, earlier>>

NextCursor ==
    \/ CursorPeek
    \/ CursorNext

SpecCursor == InitCursor /\ [][NextCursor]_vars

\* the step is a peek() right after a peek()
PeekAfterPeek == ev.op = "peek" /\ ev'.op = "peek"

\* the step is a next() right after a peek() that returned a token
NextAfterPeek == ev.op = "peek" /\ has_value(ev.tok) /\ ev'.op = "next"

\* the step neither pulls the tokenizer nor updates the path
NoPull ==
    /\ tokens'.rd = tokens.rd
    /\ tokens'.hist = tokens.hist
    /\ tokens'.m_error = tokens.m_error
    /\ tokens'.m_path = tokens.m_path
    /\ tokens'.tracked = tokens.tracked

(***************************************************************************)
(* C20  peek/next consistency.  Consecutive peek() calls return the same   *)
(* token, pull the tokenizer at most once and update the path at most      *)
(* once; a next() that follows a peek() which returned the token t returns *)
(* t, not 'no token', without a further pull or path update, and after it  *)
(* the cache is empty.                                                     *)
(***************************************************************************)
C20_PeekNextConsistent ==
    [][/\ PeekAfterPeek => (ev'.tok = ev.tok /\ tokens' = tokens)
       /\ NextAfterPeek => (ev'.tok = ev.tok /\ NoPull /\ ~has_token(tokens'))]_vars

\* the same, for a peek() that left the cursor without an error
C20_PeekNextConsistent_NoError ==
    [][/\ PeekAfterPeek => (ev'.tok = ev.tok /\ tokens' = tokens)
       /\ (NextAfterPeek /\ ~has_error(tokens)) =>
            (ev'.tok = ev.tok /\ NoPull /\ ~has_token(tokens'))]_vars

\* peek() returned the last token of a text that goes on after its root
\* value; the next() after it returned no token and the token stayed cached
W20_PeekedTokenNotTaken ==
    /\ ev.op = "next"
    /\ ~has_value(ev.tok)
    /\ has_token(tokens)
    /\ has_error(tokens)

(***************************************************************************)
(* The overloads of Deserializer::parse (Deserializer.hpp:34-237).  Each   *)
(* is enabled by a trait of T (std::enable_if_t); the compiler takes the   *)
(* call parse<T>(tokens) to the one enabled overload, and the call is      *)
(* ill-formed ("call of overloaded parse is ambiguous") when more than one *)
(* is enabled: the overloads have the same parameters and none is more     *)
(* specialised.  Serializer::dump (Serializer.hpp:13-79) is built the same *)
(* way over has_dump_v and Serializable.                                   *)
(***************************************************************************)
\* a class with a Deserializable instance (tests/Deserialization.cpp)
DeserializableClass ==
    Object("DeserializableClass", <<Field("boolean", bool), Field("integer", int32)>>)

\* a class with both a json_parse of its own and a Deserializable instance
BothClass ==
    Object("BothClass", <<Field("boolean", bool), Field("integer", int32)>>)

\* detail::has_parse_v<T, ParseResult<T>, Tokens &>
has_parse_v(T) == T.cat \in {"object", "from"} /\ T.name # "DeserializableClass"

\* Deserializable<T, Tokens>::value
Deserializable_value(T) == T.name \in {"DeserializableClass", "BothClass"}

\* the overloads in the order Deserializer.hpp lists them, each with its trait
Overloads ==
    <<"is_json_value", "is_optional_v", "is_array_like_v", "is_dict_like_v",
      "has_parse_v", "Deserializable">>

enabled(T, o) ==
    CASE o = "is_json_value"   -> T.cat = "value"
      [] o = "is_optional_v"   -> is_optional_v(T)
      [] o = "is_array_like_v" -> T.cat = "array"
      [] o = "is_dict_like_v"  -> T.cat = "dict"
      [] o = "has_parse_v"     -> has_parse_v(T)
      [] o = "Deserializable"  -> Deserializable_value(T)

viable(T) == {i \in 1..Len(Overloads) : enabled(T, Overloads[i])}

\* overload resolution of parse<T>(tokens)
resolve(T) ==
    IF Cardinality(viable(T)) = 1
      THEN Overloads[CHOOSE i \in viable(T) : TRUE]
      ELSE "ambiguous"

DispatchTypes ==
    {int8, Optional(int8), Array("vector", int8), Dict("map", int8),
     InnerClass, DeserializableClass, BothClass}

\* the caller's parse<T>(tokens) before the compiler has resolved it
InitDispatch ==
    \E T \in DispatchTypes :
       /\ tokens = ContextTokenStream(Reader("free", << >>, "clean", KeysOf(T) \cup {"dup"}))
       /\ stack = << >>
       /\ ret = NoResult
       /\ root = T
       /\ calls = 0
       /\ ev = Event("start", FALSE, NoToken, Frame(T))
       /\ given = NotDumped
       /\ written = << >>
       /\ earlier = << >>

\* the compiler resolves the call; the program runs only if it is well-formed
Instantiate ==
    /\ calls = 0
    /\ ev.op = "start"
    /\ ev' = Event(resolve(root), FALSE, NoToken, Frame(root))
    /\ IF resolve(root) = "ambiguous"
         THEN UNCHANGED <<stack, calls>>
         ELSE stack' = <<Frame(root)>> /\ calls' = 1
    /\ UNCHANGED <<tokens, ret, root, given, written, earlier>>

NextDispatch ==
    \/ Instantiate
    \/ ParseValue
    \/ ParseOptional
    \/ OptionalMember
    \/ ParseArray
    \/ ArrayMember
    \/ ParseDict
    \/ DictMember
    \/ ParseObject
    \/ ObjectMember

SpecDispatch == InitDispatch /\ [][NextDispatch]_vars

\* the call has just been resolved
JustResolved == ev.op \in {Overloads[i] : i \in 1..Len(Overloads)} \cup {"ambiguous"}

(***************************************************************************)
(* C21  Dispatch precedence.  For a user type that satisfies more than one *)
(* dispatch rule, in particular one with both a json_parse method and a    *)
(* registered Deserializable codec, the dispatcher selects exactly one     *)
(* rule, the earliest-listed one (the json_parse method), never the codec. *)
(***************************************************************************)
C21_EarliestRuleWins ==
    (JustResolved /\ viable(root) # {}) =>
      ev.op = Overloads[Min(viable(root))]

\* what the code does: a type that satisfies one rule is taken to that rule,
\* and the call for a type that satisfies more is ill-formed
C21_OneRuleOrIllFormed ==
    JustResolved =>
      IF Cardinality(viable(root)) = 1
        THEN ev.op = Overloads[Min(viable(root))] /\ calls = 1
        ELSE ev.op = "ambiguous" /\ stack = << >> /\ calls = 0

\* the call for the class with both is ill-formed
W21_BothIsAmbiguous ==
    /\ root = BothClass
    /\ ev.op = "ambiguous"

\* peek() or next() has just handed a token to the caller
TokenHanded == ev.op \in {"peek", "next"} /\ has_value(ev.tok)

(***************************************************************************)
(* C22  Path tracking per token.  In the path-tracking cursor every token  *)
(* handed to a caller by peek() or next() has driven the Path exactly      *)
(* once, before it was handed over; no token is handed over without its    *)
(* path update, whatever the tokenizer reported on the pull that produced  *)
(* it.                                                                     *)
(***************************************************************************)
C22_PathUpdatedPerToken ==
    TokenHanded =>
      /\ tokens.tracked = Len(tokens.hist)
      /\ get_path(tokens) = <<RefPath(tokens.hist)>>

\* the same, for the tokens handed over while the cursor has no error
C22_PathUpdatedPerToken_NoError ==
    (TokenHanded /\ ~has_error(tokens)) =>
      /\ tokens.tracked = Len(tokens.hist)
      /\ get_path(tokens) = <<RefPath(tokens.hist)>>

\* the bracket that closes the root value was handed over, input follows it,
\* and the path still shows the inside of the root value
W22_ClosingTokenUntracked ==
    /\ TokenHanded
    /\ ev.tok.type \in {"EndObject", "EndArray"}
    /\ tokens.tracked = Len(tokens.hist) - 1
    /\ get_path(tokens) # <<"root">>

\* the step pulls the tokenizer
Pulled ==
    \/ tokens'.rd # tokens.rd
    \/ tokens'.hist # tokens.hist
    \/ tokens'.m_error # tokens.m_error

(***************************************************************************)
(* C23  One-token lookahead.  The cursor pulls the tokenizer only when no  *)
(* token is cached and neither has_error() nor is_complete() holds, and    *)
(* each pull is caused by a peek() or next() call; hence at most one token *)
(* is ever cached, a cached token is never overwritten by a later pull,    *)
(* and is_complete() is true exactly when the tokenizer has no more events *)
(* and no token it handed over is still waiting to be taken.               *)
(***************************************************************************)
C23_OneTokenLookahead ==
    [][/\ Pulled => /\ ~has_token(tokens)
                    /\ ~has_error(tokens)
                    /\ ~is_complete(tokens)
                    /\ ev'.op \in {"peek", "next"}
       /\ Len(tokens'.hist) - tokens'.taken \in {0, 1}
       /\ has_token(tokens) => /\ tokens'.hist = tokens.hist
                               /\ tokens'.m_token \in {tokens.m_token, NoToken}
       /\ is_complete(tokens') <=>
            (IterativeParseComplete(tokens'.rd) /\ Len(tokens'.hist) = tokens'.taken)]_vars

\* several tokens have been pulled and taken, one is cached after a peek()
W23_OneCachedAfterSeveral ==
    /\ ev.op = "peek"
    /\ has_token(tokens)
    /\ Len(tokens.hist) = 3
    /\ tokens.taken = 2

(***************************************************************************)
(* detail::Path alone (Path.hpp), fed with the events of any well-nested   *)
(* token sequence: m_path is the Path, hist the events fed so far and      *)
(* rd.nest the containers open in them.                                    *)
(***************************************************************************)
\* The most events fed to a Path.
MaxEvents == 7

\* the events that keep the sequence well nested: any value, and a key or
\* the closing bracket where the JSON grammar has them
PathEvents(nest) ==
    LET values == {Token("Null", 0), Token("StartObject", 0), Token("StartArray", 0)}
    IN IF nest = << >> THEN values
       ELSE IF back(nest) = "Array" THEN values \cup {Token("EndArray", 0)}
       ELSE IF back(nest) = "ObjectValue" THEN values
       ELSE {Token("Key", "a"), Token("Key", "b"), Token("EndObject", 0)}

InitPath ==
    /\ tokens = ContextTokenStream(Reader("free", << >>, "clean", {"a", "b"}))
    /\ stack = << >>
    /\ ret = NoResult
    /\ root = Value("bool")
    /\ calls = 0
    /\ ev = Event("start", FALSE, NoToken, Frame(Value("bool")))
    /\ given = NotDumped
    /\ written = << >>
    /\ earlier = << >>

\* one call of start_object, key, end_object, start_array, value or end_array
PathEvent ==
    /\ Len(tokens.hist) < MaxEvents
    /\ tokens.rd.nest # << >> \/ tokens.hist = << >>
    /\ \E t \in PathEvents(tokens.rd.nest) :
         /\ tokens' = [tokens EXCEPT !.m_path = on_advance(@, t),
                                     !.hist = Append(@, t),
                                     !.tracked = @ + 1,
                                     !.rd.nest = NestAfter(@, t)]
         /\ ev' = Event("path", FALSE, t, ev.frame)
    /\ UNCHANGED <<stack, ret, root, calls, given, written, earlier>>

NextPath == PathEvent

SpecPath == InitPath /\ [][NextPath]_vars

(***************************************************************************)
(* C24  Path depth.  After any prefix of a well-nested event sequence the  *)
(* number of path components equals the number of start_object and         *)
(* start_array events minus the number of end_object and end_array events  *)
(* so far, and each end event leaves the components below the popped one   *)
(* unchanged.                                                              *)
(***************************************************************************)
C24_PathDepth ==
    [][/\ Len(tokens'.m_path) = Depth(tokens'.hist, Len(tokens'.hist))
       /\ IsEnd(ev'.tok) => tokens'.m_path = SubSeq(tokens.m_path, 1, Len(tokens.m_path) - 1)]_vars

\* an object inside an array inside an object was closed
W24_ClosedAtDepthThree ==
    /\ ev.tok.type = "EndObject"
    /\ Len(tokens.m_path) = 2
    /\ tokens.m_path[1].key = <<"a">>
    /\ tokens.m_path[2] = [PathArray EXCEPT !.index = 1]

\* the positions in h of the containers open after h, outermost first
OpenAt(h, k) ==
    CHOOSE i \in 1..Len(h) :
       IsOpen(h, i) /\ Cardinality({j \in 1..i : IsOpen(h, j)}) = k

\* the value events seen while the container open at i was the innermost one
ValueEvents(h, i) ==
    Cardinality({j \in Inside(h, i) : h[j].type # "Key" /\ ~IsEnd(h[j])})

(***************************************************************************)
(* C25  Array-advance-on-value rule.  The index of an array component      *)
(* equals the number of value events (value(), start_object(),             *)
(* start_array()) seen while it was the innermost component, minus one;    *)
(* it has no index before the first; key(), end_object() and end_array()   *)
(* of a nested container never change it, and events inside a nested       *)
(* container never advance the outer array.                                *)
(***************************************************************************)
C25_ArrayIndex ==
    [][/\ \A k \in 1..Len(tokens'.m_path) :
            tokens'.m_path[k].kind = "Array" =>
              /\ tokens'.m_path[k].index = ValueEvents(tokens'.hist, OpenAt(tokens'.hist, k)) - 1
              /\ (tokens'.m_path[k].index = -1) = (render_component(tokens'.m_path[k]) = "")
       /\ \A k \in 1..Len(tokens.m_path) :
            (k < Len(tokens.m_path) /\ k <= Len(tokens'.m_path)) =>
              tokens'.m_path[k] = tokens.m_path[k]
       /\ ev'.tok.type \in {"Key", "EndObject", "EndArray"} =>
            \A k \in 1..Len(tokens'.m_path) : tokens'.m_path[k].index = tokens.m_path[k].index]_vars

\* the outer array stands at its second element, an array that has seen a
\* value of its own
W25_NestedArrayAdvanced ==
    /\ Len(tokens.m_path) = 2
    /\ tokens.m_path[1] = [PathArray EXCEPT !.index = 1]
    /\ tokens.m_path[2] = [PathArray EXCEPT !.index = 0]
    /\ ev.op = "path"

(***************************************************************************)
(* C26  Integer emission width and exactness.  The writer primitive        *)
(* chosen by integer(v) represents v exactly (no truncation, no sign       *)
(* change), and it is the 32-bit primitive of the chosen signedness        *)
(* whenever v fits in that 32-bit range and the 64-bit one only otherwise. *)
(***************************************************************************)
C26_WidthAndExactness ==
    Dumped =>
      /\ (root.cat = "value" /\ root.name \in IntTypes) =>
            /\ written[1].lex = "number"
            /\ (IF written[1].neg THEN 0 - written[1].mag ELSE written[1].mag) = given
      /\ \A i \in 1..Len(written) :
            written[i].lex = "number" =>
              LET v == IF written[i].neg THEN 0 - written[i].mag ELSE written[i].mag
              IN /\ written[i].call \in {"Uint", "Uint64"} =>
                      (written[i].call = "Uint" <=> v <= numeric_max("uint32"))
                 /\ written[i].call \in {"Int", "Int64"} =>
                      (written[i].call = "Int" <=>
                         (numeric_min("int32") <= v /\ v <= numeric_max("int32")))

\* a positive value beyond the unsigned 32-bit range went out through Uint64
W26_WideValueDumped ==
    /\ Dumped
    /\ root = Value("int64")
    /\ given = numeric_max("int64")
    /\ written[1].call = "Uint64"

(***************************************************************************)
(* C27  Ok implies a clean tokenizer.  Whenever peek() or next() returns a *)
(* token, has_error() is false at that moment; so parse<T>(text) returns   *)
(* Ok only if the tokenizer reported no failure on any pull of the call,   *)
(* and a text whose root value is followed by content the tokenizer        *)
(* rejects is never parsed to Ok.                                          *)
(***************************************************************************)
C27_OkImpliesCleanTokenizer ==
    /\ (ev.fetch /\ has_value(ev.tok)) => ~has_error(tokens)
    /\ (calls > 0 /\ Done /\ is_ok(ret)) =>
          /\ ~has_error(tokens)
          /\ tokens.rd.tail # "garbage"

\* a text whose root value is followed by rejected content was parsed to Ok
\* by a call whose last pull the tokenizer failed on
W27_OkOnRejectedText ==
    /\ calls > 0 /\ Done /\ is_ok(ret)
    /\ has_error(tokens)
    /\ tokens.rd.tail = "garbage"

(***************************************************************************)
(* A measure of what is left of a call of parse<T>(json): the tokens not   *)
(* yet consumed, and within them the place of the handlers. A handler that *)
(* was called stands above the one it returns an error to and below the    *)
(* one that was handed a value, and the deeper a called handler is the     *)
(* lower it stands.                                                        *)
(***************************************************************************)
RECURSIVE TypeDepth(_)
TypeDepth(T) ==
    CASE T.cat = "value" -> 1
      [] T.cat = "object" ->
           1 + Max({0} \cup {TypeDepth(T.fields[i].type) : i \in 1..Len(T.fields)})
      [] OTHER -> 1 + TypeDepth(T.of[1])

Unconsumed(c) == Len(c.rd.script) + (IF has_token(c) THEN 1 ELSE 0)

Place ==
    LET deepest == TypeDepth(root) + 1
    IN CASE ret = NoResult -> deepest + 1 + (deepest - Len(stack))
         [] is_ok(ret)     -> 2 * deepest + 2 + Len(stack)
         [] OTHER          -> Len(stack)

Measure ==
    IF Done THEN 0
    ELSE (3 * (TypeDepth(root) + 1) + 3) * Unconsumed(tokens) + Place

\* a handler is called while the token its caller peeked is still cached
CalledOnPeeked == Len(stack) > 1 /\ top.pc = "call" /\ has_token(tokens)

Returns == Len(stack') < Len(stack)

Calls == Len(stack') > Len(stack)

Consumes == tokens'.taken > tokens.taken

(***************************************************************************)
(* C28  Termination of parsing.  For every finite token stream and every   *)
(* type built from scalars, nullables, sequences, maps and parse_object    *)
(* records, parse<T> terminates with Ok or an error: a call that has not   *)
(* returned can take a step, and every step brings the measure down.       *)
(* Every iteration of the sequence, map and record loops either returns or *)
(* consumes at least one token, also when the tokenizer fails or ends in   *)
(* the middle of a value: a step of a handler returns, consumes a token,   *)
(* or calls the parser of a member on a token it peeked, and a parser      *)
(* called on a peeked token consumes it or hands it to the parser of its   *)
(* own member.                                                             *)
(***************************************************************************)
C28_Terminates ==
    /\ [](~Done => ENABLED NextSameText)
    /\ [][~Done =>
            /\ Measure' < Measure
            /\ Measure' >= 0
            /\ Returns \/ Consumes \/ (Calls /\ has_token(tokens'))
            /\ Returns => (is_ok(ret') \/ is_parse_error(ret') \/ is_json_error(ret'))
            /\ CalledOnPeeked => (Consumes \/ Calls)]_vars

\* the tokenizer ended in the middle of the value of a map's key, inside
\* the loop of a sequence, and the call returned
W28_EndedInsideLoops ==
    /\ Done
    /\ calls > 0
    /\ root = Dict("map", Array("vector", bool))
    /\ tokens.rd.tail = "cut"
    /\ Len(tokens.hist) = 4
    /\ tokens.hist[4].type = "Bool"
    /\ is_json_error(ret)

\* parse<T>(json) has returned a value
ReturnedOk == calls > 0 /\ Done /\ is_ok(ret)

\* the first n tokens of h are one complete JSON value
OneValue(h, n) ==
    /\ n >= 1
    /\ n <= Len(h)
    /\ Depth(h, n) = 0
    /\ \A k \in 1..(n - 1) : Depth(h, k) > 0

(***************************************************************************)
(* C29  Exact consumption.  When parse<T> returns Ok, the tokens consumed  *)
(* from the cursor during the call form exactly one complete JSON value    *)
(* (one scalar or null token, or a StartArray/StartObject through its      *)
(* matching end token) and no peeked token is left cached in the cursor,   *)
(* so the next next() yields the first token after that value.             *)
(***************************************************************************)
C29_ExactConsumption ==
    ReturnedOk =>
      /\ ~has_token(tokens)
      /\ OneValue(tokens.hist, tokens.taken)

\* the same, for the calls on which the tokenizer reported no failure
C29_ExactConsumption_NoError ==
    (ReturnedOk /\ ~has_error(tokens)) =>
      /\ ~has_token(tokens)
      /\ OneValue(tokens.hist, tokens.taken)

\* a sequence was parsed to Ok and its closing bracket is still cached
W29_ClosingBracketCached ==
    /\ ReturnedOk
    /\ has_token(tokens)
    /\ tokens.m_token.type = "EndArray"
    /\ tokens.taken = Len(tokens.hist) - 1

(***************************************************************************)
(* parse_object alone: the records of tests/Deserialization.cpp parsed     *)
(* from any token stream, with keys that repeat and keys no class has.     *)
(***************************************************************************)
FieldTypes == {InnerClass, InnerClassError, Optional(InnerClass)}

InitFields ==
    \E T \in FieldTypes : InitWith(T, Reader("free", << >>, "clean", KeysOf(T) \cup {"dup"}))

NextFields ==
    \/ ParseValue
    \/ ParseOptional
    \/ OptionalMember
    \/ ParseObject
    \/ ObjectMember

SpecFields == InitFields /\ [][NextFields]_vars

\* parse_object, or parse_field for it, takes the next step
InParseObject == stack # << >> /\ top.T.cat = "object"

\* the targets of the fields that are not set hold what they held before the call
UnsetUntouched(f) ==
    \A i \in 1..Len(f.T.fields) : i \notin f.set => f.acc[i] = Default(f.T)[i]

(***************************************************************************)
(* C30  Field writes in parse_object.  A field's target is written at most *)
(* once per call and only after that field's value parsed successfully     *)
(* (its set flag goes from false to true and never back); when             *)
(* parse_object returns an error, the only targets that differ from their  *)
(* values before the call are those of fields parsed successfully before   *)
(* the failure, and the targets of the failing field and of all fields not *)
(* yet seen are unchanged.                                                 *)
(***************************************************************************)
C30_FieldWrites ==
    [][InParseObject =>
         LET before == top
             after == ev'.frame
             fresh == after.set \ before.set
         IN /\ after.T = before.T
            /\ before.set \subseteq after.set
            /\ \A i \in before.set : after.acc[i] = before.acc[i]
            /\ UnsetUntouched(after)
            /\ fresh \subseteq {before.key}
            /\ fresh # {} => /\ Resuming("object")
                             /\ is_ok(ret)
                             /\ after.acc[before.key] = ret.value
            /\ (Resuming("object") /\ ~is_ok(ret)) =>
                  /\ after = before
                  /\ Returns
                  /\ ~is_ok(ret')]_vars

\* the value of the second field failed to parse after the first was
\* written: the first target holds its value, the second is untouched
W30_FailedAfterOneWrite ==
    /\ Done
    /\ ev.op = "object"
    /\ ~ev.fetch
    /\ ~is_ok(ret)
    /\ ev.frame.T = InnerClassError
    /\ ev.frame.set = {1}
    /\ ev.frame.key = 2
    /\ ev.frame.acc[1] = "s"
    /\ ev.frame.acc[2] = Default(InnerClassError)[2]

\* a key came a second time and its target kept the value written first
W30_DuplicateNotRewritten ==
    /\ Done
    /\ ev.op = "object"
    /\ ev.fetch
    /\ ev.tok = Token("Key", "str")
    /\ 1 \in ev.frame.set
    /\ is_parse_error(ret)

=============================================================================
